---- MODULE Spec2Model ----
(***************************************************************************)
(* Model of the paging engine of bless: the raw and bzip2 FileBuffer, the  *)
(* line-oriented FileView above them and the command/cancel broker.        *)
(*                                                                         *)
(* Byte counts are scaled down (a load step is BUFFER_SIZE = 2 bytes       *)
(* instead of 64 KiB); the order relations between the constants of the    *)
(* source are kept: FIND_OVERLAP < BUFFER_SIZE < FIND_WINDOW,              *)
(* MATCH_WINDOW = FIND_OVERLAP, BUFFER_SIZE < SHRINK_THRESHOLD.            *)
(* Files are append-only and never replaced (no rotation, no truncation),  *)
(* and reads do not fail.                                                  *)
(***************************************************************************)
EXTENDS Integers, Sequences, FiniteSets, TLC

\* ------------------------------------------------------------------------
\* Program constants (scaled)
\* ------------------------------------------------------------------------
BUFFER_SIZE == 2
FIND_WINDOW == 4
FIND_OVERLAP == 1
MATCH_WINDOW == 1
SHRINK_THRESHOLD == 8
MAGIC_RFIND_WINDOW == 12
MAGIC_RFIND_OVERLAP == 8
MAX_INVALID_BLOCKS == 10
LOOP_BREAKER_COUNT == 10
FOLLOW_LINES == 1000000
\* stands for u64::MAX (the model checker's integers are 32 bits wide)
U64_MAX == 2147483647

\* ------------------------------------------------------------------------
\* Bounds of the exploration
\* ------------------------------------------------------------------------
MaxCmds == 2
MaxCancels == 1
MaxAppends == 2

\* ------------------------------------------------------------------------
\* Bytes and byte strings.  Slices are 0-based and half open, as in Rust.
\* ------------------------------------------------------------------------
NL == 10
CharA == 97
CharM == 109
CharZ == 122

Min(a, b) == IF a <= b THEN a ELSE b
Max(a, b) == IF a >= b THEN a ELSE b
SatSub(a, b) == IF a >= b THEN a - b ELSE 0

Slice(s, a, b) == SubSeq(s, a + 1, b)
Zeros(n) == [i \in 1..n |-> 0]

Some(x) == [some |-> TRUE, val |-> x]
None == [some |-> FALSE, val |-> 0]

\* regex::bytes::Regex::find for a literal pattern: leftmost match, 0-based
HasAt(hay, pat, i) ==
    /\ i + Len(pat) <= Len(hay)
    /\ \A k \in 1..Len(pat) : hay[i + k] = pat[k]

RegexFind(hay, pat) ==
    LET hits == {i \in 0..Len(hay) : HasAt(hay, pat, i)}
    IN  IF hits = {} THEN None
        ELSE Some(CHOOSE i \in hits : \A j \in hits : i <= j)

\* Regex::find_iter(..).last(): the last of the non-overlapping matches
\* found scanning left to right
RECURSIVE FindIterLastFrom(_, _, _, _)
FindIterLastFrom(hay, pat, from, last) ==
    LET hits == {i \in from..Len(hay) : HasAt(hay, pat, i)}
    IN  IF hits = {} THEN last
        ELSE LET i == CHOOSE i \in hits : \A j \in hits : i <= j
             IN  FindIterLastFrom(hay, pat, i + Max(Len(pat), 1), Some(i))

RegexFindLast(hay, pat) == FindIterLastFrom(hay, pat, 0, None)

\* ------------------------------------------------------------------------
\* utils/algorithm.rs
\* ------------------------------------------------------------------------
\* (count, index) of the nth occurrence of char, or of the last one found
find_nth_or_last(data, char, nth) ==
    LET idxs == {i \in 0..(Len(data) - 1) : data[i + 1] = char}
        upto(i) == Cardinality({j \in idxs : j < i})
        sel == {i \in idxs : upto(i) <= nth}
    IN  IF idxs = {} THEN None
        ELSE LET i == CHOOSE i \in sel : \A j \in sel : j <= i
             IN  Some(<<upto(i), i>>)

rfind_nth_or_last(data, char, nth) ==
    LET idxs == {i \in 0..(Len(data) - 1) : data[i + 1] = char}
        after(i) == Cardinality({j \in idxs : j > i})
        sel == {i \in idxs : after(i) <= nth}
    IN  IF idxs = {} THEN None
        ELSE LET i == CHOOSE i \in sel : \A j \in sel : i <= j
             IN  Some(<<after(i), i>>)

\* ------------------------------------------------------------------------
\* The file.  read(2) at an offset: at most n bytes, at most what the file
\* holds, and at most cap bytes in one call (a short read).
\* ------------------------------------------------------------------------
FileRead(file, off, n, cap) ==
    IF off >= Len(file) THEN <<>>
    ELSE Slice(file, off, off + Min(Min(n, cap), Len(file) - off))

\* ------------------------------------------------------------------------
\* file_buffer/devec.rs.  A DeVec is [data, offset]: the Vec and the number
\* of spare elements kept in front of the visible slice.
\* ------------------------------------------------------------------------
\* DeVec::new
DeVecNew == [data |-> <<>>, offset |-> 0]

as_slice(v) == Slice(v.data, v.offset, Len(v.data))

\* self.data.truncate(self.offset)
clear(v) == [v EXCEPT !.data = SubSeq(v.data, 1, v.offset)]

\* Vec::resize(size + offset, T::default())
resize_back(v, size) ==
    LET n == size + v.offset
    IN  [v EXCEPT !.data = IF n <= Len(v.data) THEN SubSeq(v.data, 1, n)
                           ELSE v.data \o Zeros(n - Len(v.data))]

\* 2usize.pow((n as f64).log2().ceil() as u32), n >= 1
RECURSIVE Pow2Ceil(_, _)
Pow2Ceil(n, p) == IF p >= n THEN p ELSE Pow2Ceil(n, 2 * p)

resize_front(v, size) ==
    LET len == Len(v.data) - v.offset
        extra == size - len
        missing == SatSub(extra, v.offset)
        new_size == Pow2Ceil(Len(v.data) + missing, 1)
        extra_alloc == new_size - (Len(v.data) + missing)
    IN  IF size > len
        THEN IF missing > 0
             THEN [data |-> Zeros(extra_alloc + missing) \o v.data, offset |-> extra_alloc]
             ELSE [v EXCEPT !.offset = SatSub(v.offset, extra)]
        ELSE [v EXCEPT !.offset = v.offset + (len - size)]

\* a shrink_to that truncates without rotating
DeVecShrinkUnrotated(v, size0) ==
    LET size == Max(size0, Len(v.data) - v.offset)
        max_offset == size \div 2
        shift == v.offset - max_offset
    IN  IF v.offset > max_offset
        THEN [data |-> SubSeq(v.data, 1, Len(v.data) - shift), offset |-> max_offset]
        ELSE v

\* DeVec::shrink_to: rotate_left(shift), then truncate
DeVecShrinkTo(v, size0) ==
    LET size == Max(size0, Len(v.data) - v.offset)
        max_offset == size \div 2
        shift == v.offset - max_offset
    IN  IF v.offset > max_offset
        THEN [data |-> SubSeq(SubSeq(v.data, shift + 1, Len(v.data))
                              \o SubSeq(v.data, 1, shift),
                              1, Len(v.data) - shift),
              offset |-> max_offset]
        ELSE v

\* ------------------------------------------------------------------------
\* file_buffer/raw.rs.  The buffer keeps the visible slice of its DeVec in
\* data and the DeVec's offset in front; the spare elements in front of the
\* slice are never read before they are written.
\* ------------------------------------------------------------------------
RawNew == [kind |-> "raw", offset |-> 0, data |-> <<>>, blocks |-> <<>>, front |-> 0]

\* self.buffer
DeVecOf(b) == [data |-> Zeros(b.front) \o b.data, offset |-> b.front]

RawRange(b) == [start |-> b.offset, end |-> b.offset + Len(b.data)]

RawJump(b, bytes) ==
    [buf |-> [b EXCEPT !.data = <<>>, !.offset = bytes], ret |-> bytes, res |-> "Ok"]

\* slice::rotate_right(k) on the first n elements of buf
RotateRightPrefix(buf, n, k) ==
    [i \in 1..Len(buf) |->
        IF i > n THEN buf[i]
        ELSE IF i <= k THEN buf[n - k + i] ELSE buf[i - k]]

RawLoadPrev(b, file, cap) ==
    LET try_read_size == Min(b.offset, BUFFER_SIZE)
        read_offset == b.offset - try_read_size
        Read(grown, got) ==
            LET read_size == Len(got)
                resized == as_slice(grown)
                filled == [i \in 1..Len(resized) |->
                              IF i <= read_size THEN got[i] ELSE resized[i]]
                missing_bytes == try_read_size - read_size
                Resized(v) ==
                    [buf |-> [b EXCEPT !.data = as_slice(v), !.front = v.offset,
                                       !.offset = b.offset - read_size],
                     ret |-> read_size, res |-> "Ok"]
                Rotated(rotated) ==
                    Resized(resize_front(
                        [grown EXCEPT !.data = SubSeq(grown.data, 1, grown.offset)
                                               \o rotated],
                        Len(rotated) - missing_bytes))
            IN  Rotated(RotateRightPrefix(filled, try_read_size, missing_bytes))
    IN  Read(resize_front(DeVecOf(b), Len(b.data) + try_read_size),
             FileRead(file, read_offset, try_read_size, cap))

\* load_next without the final resize_back(size_before + read_size)
RawLoadNextUntrimmed(b, file, cap) ==
    LET Read(got) ==
            [buf |-> [b EXCEPT !.data = b.data \o got \o Zeros(BUFFER_SIZE - Len(got))],
             ret |-> Len(got), res |-> "Ok"]
    IN  Read(FileRead(file, RawRange(b).end, BUFFER_SIZE, cap))

RawLoadNext(b, file, cap) ==
    LET read_offset == RawRange(b).end
        Read(got) == [buf |-> [b EXCEPT !.data = b.data \o got],
                      ret |-> Len(got), res |-> "Ok"]
    IN  Read(FileRead(file, read_offset, BUFFER_SIZE, cap))

\* buf after a read that failed having written junk at its start
Scribbled(buf, junk) ==
    [i \in 1..Len(buf) |-> IF i <= Len(junk) THEN junk[i] ELSE buf[i]]

\* load_prev when the seek or the read returns Err: read_size is
\* unwrap_or(&0), the slice handed to the read may hold junk
RawLoadPrevFailed(b, junk) ==
    LET try_read_size == Min(b.offset, BUFFER_SIZE)
        read_size == 0
        missing_bytes == try_read_size - read_size
        Resized(v) ==
            [buf |-> [b EXCEPT !.data = as_slice(v), !.front = v.offset,
                               !.offset = b.offset - read_size],
             ret |-> 0, res |-> "Other"]
        Rotated(grown, rotated) ==
            Resized(resize_front(
                [grown EXCEPT !.data = SubSeq(grown.data, 1, grown.offset) \o rotated],
                Len(rotated) - missing_bytes))
        Read(grown) ==
            Rotated(grown,
                    RotateRightPrefix(
                        Scribbled(as_slice(grown),
                                  SubSeq(junk, 1, Min(Len(junk), try_read_size))),
                        try_read_size, missing_bytes))
    IN  Read(resize_front(DeVecOf(b), Len(b.data) + try_read_size))

\* a failed load_next without the final resize_back(size_before + read_size)
RawLoadNextFailedUntrimmed(b, junk) ==
    [buf |-> [b EXCEPT !.data = b.data \o Scribbled(Zeros(BUFFER_SIZE), junk)],
     ret |-> 0, res |-> "Other"]

\* load_next when the seek or the read returns Err
RawLoadNextFailed(b, junk) ==
    LET size_before == Len(b.data)
        read_size == 0
        Trimmed(v) == [buf |-> [b EXCEPT !.data = as_slice(v), !.front = v.offset],
                       ret |-> 0, res |-> "Other"]
        Read(grown) ==
            Trimmed(resize_back(
                [grown EXCEPT !.data =
                    SubSeq(grown.data, 1, grown.offset + size_before)
                    \o Scribbled(Zeros(BUFFER_SIZE), junk)],
                size_before + read_size))
    IN  Read(resize_back(DeVecOf(b), size_before + BUFFER_SIZE))

\* shrink_to asserts range.start <= range.end <= len(data)
RawShrinkTo(b, start, end) ==
    IF ~(start <= end /\ end <= Len(b.data))
    THEN [buf |-> b, start |-> start, end |-> end, res |-> "Panic"]
    ELSE LET Shrunk(v) ==
                 [buf |-> [b EXCEPT !.data = as_slice(v), !.front = v.offset,
                                    !.offset = b.offset + start],
                  start |-> start, end |-> end, res |-> "Ok"]
             Front(v) == DeVecShrinkTo(v, Len(v.data) - v.offset)
             Back(v) == Front(resize_front(v, (Len(v.data) - v.offset) - start))
         IN  Shrunk(Back(resize_back(DeVecOf(b), end)))

\* ------------------------------------------------------------------------
\* file_buffer/bzip2.rs
\* ------------------------------------------------------------------------
HEADER_LEN == 4
BZ_HEADER == <<66, 90, 104, 57>>
MAGIC == <<49, 65, 89, 38, 83, 89>>
FOOTER_BYTE == 23
BZ_FOOTER == <<23, 114>>

\* make_file_buffer: a file whose first 4 bytes match BZ[h0][1-9] is bzip2
IsBz2(file) ==
    /\ Len(file) >= HEADER_LEN
    /\ file[1] = 66 /\ file[2] = 90
    /\ file[3] \in {104, 48}
    /\ file[4] \in 49..57

\* Bz2FileBuffer::new reads the header with read_exact(..).unwrap(): it
\* panics on a file that holds fewer than 4 bytes
HeaderRead(file) == Len(file) >= HEADER_LEN

Bz2New == [kind |-> "bz2", offset |-> 0, data |-> <<>>, blocks |-> <<>>]

RECURSIVE ConcatBlocks(_)
ConcatBlocks(blocks) ==
    IF blocks = <<>> THEN <<>>
    ELSE Head(blocks).data \o ConcatBlocks(Tail(blocks))

rebuild_data(b) == [b EXCEPT !.data = ConcatBlocks(b.blocks)]

\* The decompressor, abstracted: a compressed block is the magic followed
\* by its bytes stored verbatim; a stream of whole blocks decodes to the
\* concatenation of their bytes, input that does not begin with a block
\* (or with the end-of-stream footer) is a data error.
RECURSIVE Decompress(_)
Decompress(input) ==
    IF input = <<>> THEN [ok |-> TRUE, data |-> <<>>]
    ELSE IF input[1] = FOOTER_BYTE THEN [ok |-> TRUE, data |-> <<>>]
    ELSE IF ~HasAt(input, MAGIC, 0) THEN [ok |-> FALSE, data |-> <<>>]
    ELSE LET rest == Slice(input, Len(MAGIC), Len(input))
             stops == {i \in 0..Len(rest) :
                          \/ i = Len(rest)
                          \/ HasAt(rest, MAGIC, i)
                          \/ (i < Len(rest) /\ rest[i + 1] = FOOTER_BYTE)}
             Cat(stop, tail) == [ok |-> tail.ok, data |-> Slice(rest, 0, stop) \o tail.data]
             Split(stop) == Cat(stop, Decompress(Slice(rest, stop, Len(rest))))
         IN  Split(CHOOSE i \in stops : \A j \in stops : i <= j)

decode_block(file, start, end) ==
    IF start > end \/ end > Len(file)
    THEN [res |-> "Panic", block |-> [start |-> start, end |-> end, data |-> <<>>]]
    ELSE LET Block(d) == [res |-> IF d.ok THEN "Ok" ELSE "Other",
                          block |-> [start |-> start, end |-> end, data |-> d.data]]
         IN  Block(Decompress(Slice(file, start, end)))

find_block_from(file, byte) ==
    IF byte > Len(file) THEN [res |-> "Panic", val |-> 0]
    ELSE LET Found(m) == [res |-> "Ok",
                          val |-> IF m.some THEN byte + m.val ELSE Len(file) - 1]
         IN  Found(RegexFind(Slice(file, byte, Len(file)), MAGIC))

RECURSIVE RfindBlockLoop(_, _, _)
RfindBlockLoop(file, start, end) ==
    LET Found(m) ==
            IF m.some THEN start + m.val
            ELSE IF start = 0 THEN HEADER_LEN
            ELSE LET end2 == start + MAGIC_RFIND_OVERLAP
                 IN  RfindBlockLoop(file, SatSub(end2, MAGIC_RFIND_WINDOW), end2)
    IN  Found(RegexFindLast(Slice(file, start, end), MAGIC))

rfind_block_from(file, byte) ==
    IF byte > Len(file) THEN [res |-> "Panic", val |-> 0]
    ELSE [res |-> "Ok",
          val |-> RfindBlockLoop(file, SatSub(byte, MAGIC_RFIND_WINDOW), byte)]

Bz2Range(b) ==
    [start |-> IF b.blocks = <<>> THEN HEADER_LEN ELSE b.blocks[1].start,
     end |-> IF b.blocks = <<>> THEN HEADER_LEN ELSE b.blocks[Len(b.blocks)].end]

\* jump, load_next and load_prev return [buf, ret, res, tried]: tried is
\* the list of the file ranges handed to decode_block, in order
Retried(range, r) == [r EXCEPT !.tried = <<range>> \o @]

RECURSIVE Bz2JumpLoop(_, _, _, _, _)
Bz2JumpLoop(b, file, start0, end0, breaker) ==
    LET Decoded(e, s, d) ==
            IF e.res # "Ok" THEN [buf |-> b, ret |-> 0, res |-> e.res, tried |-> <<>>]
            ELSE IF s.res # "Ok" THEN [buf |-> b, ret |-> 0, res |-> s.res, tried |-> <<>>]
            ELSE IF d.res = "Panic"
            THEN [buf |-> b, ret |-> 0, res |-> "Panic", tried |-> <<<<s.val, e.val>>>>]
            ELSE IF d.res = "Ok"
            THEN [buf |-> rebuild_data([b EXCEPT !.blocks = <<d.block>>]),
                  ret |-> d.block.start, res |-> "Ok", tried |-> <<<<s.val, e.val>>>>]
            ELSE IF breaker - 1 = 0
            THEN [buf |-> b, ret |-> 0, res |-> "Other", tried |-> <<<<s.val, e.val>>>>]
            ELSE Retried(<<s.val, e.val>>, Bz2JumpLoop(b, file, s.val, e.val, breaker - 1))
        Found(e, s) == Decoded(e, s, decode_block(file, s.val, e.val))
    IN  Found(find_block_from(file, end0), rfind_block_from(file, start0))

Bz2Jump(b, file, byte) == Bz2JumpLoop(b, file, byte, byte, MAX_INVALID_BLOCKS)

RECURSIVE Bz2LoadNextLoop(_, _, _, _, _)
Bz2LoadNextLoop(b, file, start, end0, breaker) ==
    LET Decoded(e, d) ==
            IF e.res # "Ok" THEN [buf |-> b, ret |-> 0, res |-> e.res, tried |-> <<>>]
            ELSE IF e.val <= start THEN [buf |-> b, ret |-> 0, res |-> "Ok", tried |-> <<>>]
            ELSE IF d.res = "Panic"
            THEN [buf |-> b, ret |-> 0, res |-> "Panic", tried |-> <<<<start, e.val>>>>]
            ELSE IF d.res = "Ok"
            THEN [buf |-> [b EXCEPT !.data = b.data \o d.block.data,
                                    !.blocks = Append(b.blocks, d.block)],
                  ret |-> Len(d.block.data), res |-> "Ok", tried |-> <<<<start, e.val>>>>]
            ELSE IF breaker - 1 = 0
            THEN [buf |-> b, ret |-> 0, res |-> "Other", tried |-> <<<<start, e.val>>>>]
            ELSE Retried(<<start, e.val>>, Bz2LoadNextLoop(b, file, start, e.val, breaker - 1))
        Found(e) == Decoded(e, decode_block(file, start, e.val))
    IN  Found(find_block_from(file, end0))

Bz2LoadNext(b, file) ==
    LET From(start) == Bz2LoadNextLoop(b, file, start, start + 1, MAX_INVALID_BLOCKS)
    IN  From(Bz2Range(b).end)

RECURSIVE Bz2LoadPrevLoop(_, _, _, _, _)
Bz2LoadPrevLoop(b, file, start0, end, breaker) ==
    LET Decoded(s, d) ==
            IF s.res # "Ok" THEN [buf |-> b, ret |-> 0, res |-> s.res, tried |-> <<>>]
            ELSE IF s.val >= end THEN [buf |-> b, ret |-> 0, res |-> "Ok", tried |-> <<>>]
            ELSE IF d.res = "Panic"
            THEN [buf |-> b, ret |-> 0, res |-> "Panic", tried |-> <<<<s.val, end>>>>]
            ELSE IF d.res = "Ok"
            THEN [buf |-> [b EXCEPT !.data = d.block.data \o b.data,
                                    !.blocks = <<d.block>> \o b.blocks],
                  ret |-> Len(d.block.data), res |-> "Ok", tried |-> <<<<s.val, end>>>>]
            ELSE IF breaker - 1 = 0
            THEN [buf |-> b, ret |-> 0, res |-> "Other", tried |-> <<<<s.val, end>>>>]
            ELSE Retried(<<s.val, end>>, Bz2LoadPrevLoop(b, file, s.val, end, breaker - 1))
        Found(s) == Decoded(s, decode_block(file, s.val, end))
    IN  Found(rfind_block_from(file, start0))

Bz2LoadPrev(b, file) ==
    LET From(end) == Bz2LoadPrevLoop(b, file, end, end, MAX_INVALID_BLOCKS)
    IN  From(Bz2Range(b).start)

\* shrink_to of the compressed buffer: whole blocks only
RECURSIVE DropFront(_, _, _)
DropFront(blocks, start, dropped) ==
    IF blocks # <<>> /\ dropped + Len(Head(blocks).data) <= start
    THEN DropFront(Tail(blocks), start, dropped + Len(Head(blocks).data))
    ELSE [blocks |-> blocks, dropped |-> dropped]

RECURSIVE DropBack(_, _, _)
DropBack(blocks, end, total) ==
    IF blocks # <<>> /\ total - Len(blocks[Len(blocks)].data) >= end
    THEN DropBack(SubSeq(blocks, 1, Len(blocks) - 1), end,
                  total - Len(blocks[Len(blocks)].data))
    ELSE [blocks |-> blocks, total |-> total]

Bz2ShrinkTo(b, start, end) ==
    LET Kept(back, front) ==
            [buf |-> rebuild_data([b EXCEPT !.blocks = front.blocks]),
             start |-> front.dropped, end |-> back.total, res |-> "Ok"]
        Front(back) == Kept(back, DropFront(back.blocks, start, 0))
    IN  Front(DropBack(b.blocks, end, Len(b.data)))

\* seek_from and rseek_from of the compressed buffer, one pass of the loop
\* up to its yield_now: scan of decoded[begin..end], read of the cancel
\* flag, load when the window is at the edge of the decoded data, next
\* window.  The passes return [out, at, begin, end, buf].  The usize
\* subtraction end - FIND_OVERLAP panics when it underflows (a release
\* build wraps and panics at the slice begin..end of the next pass); a slice
\* that ends after the decoded data panics.
SeekPass(out, at, begin, end, buf) ==
    [out |-> out, at |-> at, begin |-> begin, end |-> end, buf |-> buf]

\* a seek_from that does not read the cancel flag
Bz2SeekFromNoPoll(b, file, pat, begin, end, cancel) ==
    LET m == RegexFind(Slice(b.data, begin, end), pat)
        Loaded(l) ==
            IF l.res = "Panic" THEN SeekPass("panic", 0, begin, end, b)
            ELSE IF l.res # "Ok" THEN SeekPass("error", 0, begin, end, b)
            ELSE IF l.ret = 0 THEN SeekPass("none", 0, begin, end, b)
            ELSE IF end < FIND_OVERLAP THEN SeekPass("panic", 0, begin, end, l.buf)
            ELSE SeekPass("more", 0, end - FIND_OVERLAP,
                          Min(end - FIND_OVERLAP + FIND_WINDOW, Len(l.buf.data)), l.buf)
    IN  IF m.some THEN SeekPass("found", begin + m.val, begin, end, b)
        ELSE Loaded(IF end = Len(b.data) THEN Bz2LoadNext(b, file)
                    ELSE [buf |-> b, ret |-> 1, res |-> "Ok"])

Bz2SeekFrom(b, file, pat, begin, end, cancel) ==
    LET m == RegexFind(Slice(b.data, begin, end), pat)
        Loaded(l) ==
            IF l.res = "Panic" THEN SeekPass("panic", 0, begin, end, b)
            ELSE IF l.res # "Ok" THEN SeekPass("error", 0, begin, end, b)
            ELSE IF l.ret = 0 THEN SeekPass("none", 0, begin, end, b)
            ELSE IF end < FIND_OVERLAP THEN SeekPass("panic", 0, begin, end, l.buf)
            ELSE SeekPass("more", 0, end - FIND_OVERLAP,
                          Min(end - FIND_OVERLAP + FIND_WINDOW, Len(l.buf.data)), l.buf)
    IN  IF m.some THEN SeekPass("found", begin + m.val, begin, end, b)
        ELSE IF cancel THEN SeekPass("interrupted", 0, begin, end, b)
        ELSE Loaded(IF end = Len(b.data) THEN Bz2LoadNext(b, file)
                    ELSE [buf |-> b, ret |-> 1, res |-> "Ok"])

Bz2RseekFrom(b, file, pat, begin, end, cancel) ==
    LET m == RegexFindLast(Slice(b.data, begin, end), pat)
        Window(buf, begin1) ==
            SeekPass("more", 0, SatSub(begin1 + FIND_OVERLAP, FIND_WINDOW),
                     begin1 + FIND_OVERLAP, buf)
        Loaded(l) ==
            IF l.res = "Panic" THEN SeekPass("panic", 0, begin, end, b)
            ELSE IF l.res # "Ok" THEN SeekPass("error", 0, begin, end, b)
            ELSE IF l.ret = 0 THEN SeekPass("none", 0, begin, end, b)
            ELSE Window(l.buf, begin + l.ret)
    IN  IF end > Len(b.data) THEN SeekPass("panic", 0, begin, end, b)
        ELSE IF m.some THEN SeekPass("found", begin + m.val, begin, end, b)
        ELSE IF cancel THEN SeekPass("interrupted", 0, begin, end, b)
        ELSE IF begin = 0 THEN Loaded(Bz2LoadPrev(b, file))
        ELSE Window(b, begin)

\* ------------------------------------------------------------------------
\* file_buffer/mod.rs: the FileBuffer trait, dispatched on the variant
\* ------------------------------------------------------------------------
make_file_buffer(file) == IF IsBz2(file) THEN Bz2New ELSE RawNew

BufRange(b) == IF b.kind = "raw" THEN RawRange(b) ELSE Bz2Range(b)
BufJump(b, file, byte) ==
    IF b.kind = "raw" THEN RawJump(b, byte) ELSE Bz2Jump(b, file, byte)
BufLoadPrev(b, file, cap) ==
    IF b.kind = "raw" THEN RawLoadPrev(b, file, cap) ELSE Bz2LoadPrev(b, file)
BufLoadNext(b, file, cap) ==
    IF b.kind = "raw" THEN RawLoadNext(b, file, cap) ELSE Bz2LoadNext(b, file)
BufShrinkTo(b, start, end) ==
    IF b.kind = "raw" THEN RawShrinkTo(b, start, end) ELSE Bz2ShrinkTo(b, start, end)
total_size(file) == Len(file)

\* ------------------------------------------------------------------------
\* file_view/file_view.rs.  A FileView is [buf, vo, cl]: the buffer,
\* view_offset and current_line.  Every operation returns the view it
\* leaves behind and its result ("Ok" or the error).
\* ------------------------------------------------------------------------
FileViewNew(file) == [buf |-> make_file_buffer(file), vo |-> 0, cl |-> Some(1)]

MapLine(cl, d) == IF cl.some THEN Some(cl.val + d) ELSE None

current_view(fv) ==
    IF fv.vo <= Len(fv.buf.data) THEN Slice(fv.buf.data, fv.vo, Len(fv.buf.data))
    ELSE <<>>

above_view(fv) ==
    IF fv.vo <= Len(fv.buf.data) THEN Slice(fv.buf.data, 0, fv.vo) ELSE <<>>

save_state(fv) ==
    [view_offset |-> fv.vo, buffer_pos |-> BufRange(fv.buf).start,
     current_line |-> fv.cl]

load_state(fv, file, state) ==
    LET Jumped(j) ==
            [fv |-> [buf |-> j.buf, vo |-> state.view_offset, cl |-> state.current_line],
             res |-> j.res]
    IN  Jumped(BufJump(fv.buf, file, state.buffer_pos))

maybe_shrink(fv, start, end) ==
    IF Len(fv.buf.data) < SHRINK_THRESHOLD THEN [fv |-> fv, res |-> "Ok"]
    ELSE LET Shrunk(sh) ==
                 IF sh.res # "Ok" THEN [fv |-> fv, res |-> sh.res]
                 ELSE [fv |-> [fv EXCEPT !.buf = sh.buf, !.vo = start - sh.start],
                       res |-> "Ok"]
         IN  Shrunk(BufShrinkTo(fv.buf, start, end))

maybe_shrink_left(fv) == maybe_shrink(fv, fv.vo, Len(fv.buf.data))

maybe_shrink_right(fv) == maybe_shrink(fv, 0, fv.vo)

load_next(fv, file, cap) ==
    LET Shrunk(l, sh) ==
            IF l.res # "Ok" THEN [fv |-> fv, ret |-> 0, res |-> l.res]
            ELSE [fv |-> sh.fv, ret |-> l.ret, res |-> sh.res]
        Loaded(l) == Shrunk(l, maybe_shrink_left([fv EXCEPT !.buf = l.buf]))
    IN  Loaded(BufLoadNext(fv.buf, file, cap))

load_prev(fv, file, cap) ==
    LET Shrunk(l, sh) ==
            IF l.res # "Ok" THEN [fv |-> fv, ret |-> 0, res |-> l.res]
            ELSE [fv |-> sh.fv, ret |-> l.ret, res |-> sh.res]
        Loaded(l) ==
            Shrunk(l, maybe_shrink_right([fv EXCEPT !.buf = l.buf, !.vo = fv.vo + l.ret]))
    IN  Loaded(BufLoadPrev(fv.buf, file, cap))

RECURSIVE UpLoop(_, _, _, _, _)
UpLoop(fv, file, cap, lines, count) ==
    IF lines = 0 THEN [fv |-> fv, res |-> "Ok"]
    ELSE IF count - 1 = 0 THEN [fv |-> fv, res |-> "InfiniteLoop"]
    ELSE LET above == above_view(fv)
             view == Slice(above, 0, SatSub(Len(above), 1))
             Iteration(m, lp) ==
                 IF m.some
                 THEN UpLoop([fv EXCEPT !.vo = m.val[2] + 1,
                                        !.cl = MapLine(fv.cl, 0 - 1 - m.val[1])],
                             file, cap, lines - (1 + m.val[1]), LOOP_BREAKER_COUNT)
                 ELSE IF lp.res # "Ok" THEN [fv |-> lp.fv, res |-> lp.res]
                 ELSE IF lp.ret = 0
                 THEN IF lp.fv.vo = 0
                      THEN [fv |-> [lp.fv EXCEPT !.vo = 0, !.cl = Some(1)], res |-> "BOF"]
                      ELSE UpLoop([lp.fv EXCEPT !.vo = 0, !.cl = Some(1)],
                                  file, cap, lines - 1, count - 1)
                 ELSE UpLoop(lp.fv, file, cap, lines, count - 1)
         IN  Iteration(rfind_nth_or_last(view, NL, SatSub(lines, 1)),
                       load_prev(fv, file, cap))

up(fv, file, cap, lines) == UpLoop(fv, file, cap, lines, LOOP_BREAKER_COUNT)

RECURSIVE DownLoop(_, _, _, _, _)
DownLoop(fv, file, cap, lines, count) ==
    IF lines = 0 THEN [fv |-> fv, res |-> "Ok"]
    ELSE IF count - 1 = 0 THEN [fv |-> fv, res |-> "InfiniteLoop"]
    ELSE LET Iteration(m, ln) ==
                 IF m.some
                 THEN DownLoop([fv EXCEPT !.vo = fv.vo + m.val[2] + 1,
                                          !.cl = MapLine(fv.cl, 1 + m.val[1])],
                               file, cap, lines - (1 + m.val[1]), LOOP_BREAKER_COUNT)
                 ELSE IF ln.res # "Ok" THEN [fv |-> ln.fv, res |-> ln.res]
                 ELSE IF ln.ret = 0 THEN [fv |-> ln.fv, res |-> "EOF"]
                 ELSE DownLoop(ln.fv, file, cap, lines, count - 1)
         IN  Iteration(find_nth_or_last(current_view(fv), NL, SatSub(lines, 1)),
                       load_next(fv, file, cap))

down(fv, file, cap, lines) == DownLoop(fv, file, cap, lines, LOOP_BREAKER_COUNT)

\* a jump_to_byte that leaves the view where the buffer landed, without the
\* up(1) that re-aligns it
jump_to_byte_unaligned(fv, file, cap, bytes) ==
    LET Jumped(j) ==
            IF j.res # "Ok" THEN [fv |-> fv, res |-> j.res]
            ELSE [fv |-> [buf |-> j.buf, vo |-> 0,
                          cl |-> IF bytes = 0 THEN Some(1) ELSE None],
                  res |-> "Ok"]
    IN  Jumped(BufJump(fv.buf, file, bytes))

jump_to_byte(fv, file, cap, bytes) ==
    LET Jumped(j) ==
            IF j.res # "Ok" THEN [fv |-> fv, res |-> j.res]
            ELSE IF bytes = 0
            THEN [fv |-> [buf |-> j.buf, vo |-> 0, cl |-> Some(1)], res |-> "Ok"]
            ELSE up([buf |-> j.buf, vo |-> 0, cl |-> None], file, cap, 1)
    IN  Jumped(BufJump(fv.buf, file, bytes))

top(fv, file, cap) == jump_to_byte(fv, file, cap, 0)

\* total_size() - 1 is a u64 subtraction
bottom(fv, file) ==
    LET size == total_size(file)
        Jumped(j) ==
            IF j.res # "Ok" THEN [fv |-> fv, res |-> j.res]
            ELSE [fv |-> [buf |-> j.buf, vo |-> Len(j.buf.data), cl |-> Some(0)],
                  res |-> "Ok"]
    IN  Jumped(BufJump(fv.buf, file, IF size = 0 THEN U64_MAX ELSE size - 1))

Abs(x) == IF x < 0 THEN 0 - x ELSE x

jump_to_line(fv, file, cap, line) ==
    LET \* top() when the line is counted from the top, bottom() otherwise
        Edge(v, wanted) ==
            IF ~wanted THEN [fv |-> v, res |-> "Ok"]
            ELSE IF line > 0 THEN top(v, file, cap)
            ELSE bottom(v, file)
        Move(side, reset) ==
            LET offset == line - reset.fv.cl.val
            IN  IF side.res # "Ok" THEN side
                ELSE IF reset.res # "Ok" THEN reset
                ELSE IF offset > 0 THEN down(reset.fv, file, cap, Abs(offset))
                ELSE IF offset < 0 THEN up(reset.fv, file, cap, Abs(offset))
                ELSE [fv |-> reset.fv, res |-> "Ok"]
        Reset(side) ==
            Move(side, Edge(side.fv, Abs(line - side.fv.cl.val) > Abs(line)))
    IN  Reset(Edge(fv, \/ line > 0 /\ (~fv.cl.some \/ fv.cl.val <= 0)
                       \/ line <= 0 /\ (~fv.cl.some \/ fv.cl.val > 0)))

\* str::lines(): split at newlines, no empty line after a final newline
RECURSIVE Lines(_)
Lines(bytes) ==
    IF bytes = <<>> THEN <<>>
    ELSE LET nls == {i \in 1..Len(bytes) : bytes[i] = NL}
         IN  IF nls = {} THEN <<bytes>>
             ELSE LET i == CHOOSE i \in nls : \A j \in nls : i <= j
                  IN  <<SubSeq(bytes, 1, i - 1)>> \o Lines(SubSeq(bytes, i + 1, Len(bytes)))

div_ceil(a, b) == (a + b - 1) \div b

\* visual rows of one source line; ncols is None when lines are not wrapped
VisualLines(line, ncols) == IF ncols.some THEN div_ceil(Len(line), ncols.val) ELSE 1

RECURSIVE SumVisual(_, _)
SumVisual(lines, ncols) ==
    IF lines = <<>> THEN 0
    ELSE VisualLines(Head(lines), ncols) + SumVisual(Tail(lines), ncols)

\* the for loop of view(): the number of source lines to return, if the
\* loop returns
RECURSIVE ViewScan(_, _, _, _, _)
ViewScan(lines, in_lines, out_lines, nlines, ncols) ==
    IF in_lines >= Len(lines) THEN None
    ELSE LET out == out_lines + VisualLines(lines[in_lines + 1], ncols)
         IN  IF out > nlines THEN Some(in_lines)
             ELSE IF out = nlines THEN Some(in_lines + 1)
             ELSE ViewScan(lines, in_lines + 1, out, nlines, ncols)

RECURSIVE ViewFill(_, _, _, _, _)
ViewFill(fv, file, cap, nlines, ncols) ==
    LET Filled(u, lines, d) ==
            LET out_lines == SumVisual(lines, ncols)
            IN  IF u.res = "Panic" THEN [fv |-> u.fv, text |-> <<>>, res |-> "Panic"]
                ELSE IF u.res # "Ok" THEN [fv |-> u.fv, text |-> lines, res |-> "Ok"]
                ELSE IF out_lines >= nlines
                THEN IF out_lines > nlines
                     THEN [fv |-> d.fv, text |-> Lines(current_view(d.fv)),
                           res |-> IF d.res = "Panic" THEN "Panic" ELSE "Ok"]
                     ELSE [fv |-> u.fv, text |-> lines, res |-> "Ok"]
                ELSE ViewFill(u.fv, file, cap, nlines, ncols)
        Moved(u) == Filled(u, Lines(current_view(u.fv)), down(u.fv, file, cap, 1))
    IN  Moved(up(fv, file, cap, 1))

RECURSIVE view(_, _, _, _, _)
view(fv, file, cap, nlines, ncols) ==
    LET lines == Lines(current_view(fv))
        Scanned(n, ln) ==
            IF n.some THEN [fv |-> fv, text |-> SubSeq(lines, 1, n.val), res |-> "Ok"]
            ELSE IF ln.res # "Ok" THEN [fv |-> ln.fv, text |-> <<>>, res |-> ln.res]
            ELSE IF ln.ret = 0 THEN ViewFill(ln.fv, file, cap, nlines, ncols)
            ELSE view(ln.fv, file, cap, nlines, ncols)
    IN  Scanned(ViewScan(lines, 0, 0, nlines, ncols), load_next(fv, file, cap))

\* offset(): computed in f64 and cast to u64 (NaN casts to 0, +inf saturates)
offset(fv) ==
    LET r == BufRange(fv.buf)
        buffer_size == r.end - r.start
        data_size == Len(fv.buf.data)
    IN  IF data_size = 0
        THEN (IF fv.vo * buffer_size = 0 THEN r.start ELSE U64_MAX)
        ELSE r.start + ((fv.vo * buffer_size) \div data_size)

\* ------------------------------------------------------------------------
\* The searches of the FileView, cut at the points where they yield to the
\* scheduler: a search in progress is [cmd, kind, begin, end, len, state].
\* ------------------------------------------------------------------------
\* a find whose next window begins where the last one ended
FindWindowNoOverlap(file, pat, begin, end, len, window, overlap) ==
    LET m == RegexFind(Slice(file, begin, end), pat)
    IN  IF m.some THEN [out |-> "found", at |-> begin + m.val, begin |-> begin, end |-> end]
        ELSE IF end = len THEN [out |-> "none", at |-> 0, begin |-> begin, end |-> end]
        ELSE [out |-> "more", at |-> 0, begin |-> end, end |-> Min(end + window, len)]

\* FileBuffer::find of the raw buffer, one window: the mmap is the file as
\* mapped when the search began (len bytes); FIND_WINDOW and FIND_OVERLAP
\* are parameters
FindWindowAt(file, pat, begin, end, len, window, overlap) ==
    LET m == RegexFind(Slice(file, begin, end), pat)
        begin2 == end - overlap
    IN  IF m.some THEN [out |-> "found", at |-> begin + m.val, begin |-> begin, end |-> end]
        ELSE IF end = len THEN [out |-> "none", at |-> 0, begin |-> begin, end |-> end]
        ELSE [out |-> "more", at |-> 0, begin |-> begin2,
              end |-> Min(begin2 + window, len)]

RawFindWindow(file, pat, begin, end, len) ==
    FindWindowAt(file, pat, begin, end, len, FIND_WINDOW, FIND_OVERLAP)

RawFindStart(buf, file) ==
    [begin |-> buf.offset, end |-> Min(buf.offset + FIND_WINDOW, Len(file))]

\* FileBuffer::rfind of the raw buffer, one window
RfindWindowAt(file, pat, begin, end, window, overlap) ==
    LET m == RegexFindLast(Slice(file, begin, end), pat)
        end2 == begin + overlap
    IN  IF m.some THEN [out |-> "found", at |-> begin + m.val, begin |-> begin, end |-> end]
        ELSE IF begin = 0 THEN [out |-> "none", at |-> 0, begin |-> begin, end |-> end]
        ELSE [out |-> "more", at |-> 0, begin |-> SatSub(end2, window), end |-> end2]

RawRfindWindow(file, pat, begin, end) ==
    RfindWindowAt(file, pat, begin, end, FIND_WINDOW, FIND_OVERLAP)

RawRfindStart(buf) ==
    [begin |-> SatSub(buf.offset, FIND_WINDOW), end |-> buf.offset]

\* find / rfind of the compressed buffer: not supported, the FileView
\* searches the decoded data itself
BufFindSupported(buf) == buf.kind = "raw"

NoSearch ==
    [kind |-> "none", pat |-> <<>>, begin |-> 0, end |-> 0, len |-> 0,
     state |-> [view_offset |-> 0, buffer_pos |-> 0, current_line |-> None]]

Done(fv, res) == [done |-> TRUE, fv |-> fv, res |-> res, srch |-> NoSearch, at |-> -1]
Pending(fv, srch) == [done |-> FALSE, fv |-> fv, res |-> "Ok", srch |-> srch, at |-> -1]

\* (at: where the match was found, when the buffer found one)
\* the match arms on the result of buffer.find / buffer.rfind
FastPathResult(fv, file, cap, w, srch) ==
    LET Jumped(j) == [done |-> TRUE, fv |-> j.fv, res |-> j.res, srch |-> NoSearch,
                      at |-> w.at]
        Restored(l) == Done(l.fv, IF l.res # "Ok" THEN l.res ELSE "NoMatchFound")
    IN  IF w.out = "found" THEN Jumped(jump_to_byte(fv, file, cap, w.at))
        ELSE IF w.out = "none" THEN Restored(load_state(fv, file, srch.state))
        ELSE Pending(fv, [srch EXCEPT !.begin = w.begin, !.end = w.end])

\* the end of the fallback loops: load_state, then the error
FallbackFail(fv, file, srch, err) ==
    LET Restored(l) == Done(l.fv, IF l.res # "Ok" THEN l.res ELSE err)
    IN  Restored(load_state(fv, file, srch.state))

\* one iteration of the fallback loop of down_to_line_matching, up to its
\* load_next
FallbackDownScan(fv, file, cap, srch) ==
    LET Aligned(u) ==
            Done([u.fv EXCEPT !.cl = None], IF u.res = "Panic" THEN "Panic" ELSE "Ok")
        Scanned(m) ==
            IF m.some
            THEN Aligned(up([fv EXCEPT !.vo = fv.vo + m.val + 1], file, cap, 1))
            ELSE Pending([fv EXCEPT
                            !.vo = fv.vo + SatSub(Len(current_view(fv)), MATCH_WINDOW)],
                         srch)
    IN  Scanned(RegexFind(current_view(fv), srch.pat))

FallbackDownLoad(fv, file, cap, srch, cancel) ==
    LET Loaded(ln) ==
            IF ln.res = "Ok" /\ ln.ret # 0 /\ ~cancel
            THEN FallbackDownScan(ln.fv, file, cap, srch)
            ELSE FallbackFail(ln.fv, file, srch,
                              IF ln.res # "Ok" THEN ln.res
                              ELSE IF ln.ret = 0 THEN "NoMatchFound"
                              ELSE "Cancelled")
    IN  Loaded(load_next(fv, file, cap))

FallbackUpScan(fv, file, cap, srch) ==
    LET Aligned(u) ==
            Done([u.fv EXCEPT !.cl = None], IF u.res = "Panic" THEN "Panic" ELSE "Ok")
        Scanned(m) ==
            IF m.some THEN Aligned(up([fv EXCEPT !.vo = m.val + 1], file, cap, 1))
            ELSE Pending([fv EXCEPT !.vo = MATCH_WINDOW], srch)
    IN  Scanned(RegexFindLast(above_view(fv), srch.pat))

FallbackUpLoad(fv, file, cap, srch, cancel) ==
    LET Loaded(lp) ==
            IF lp.res = "Ok" /\ lp.ret # 0 /\ ~cancel
            THEN FallbackUpScan(lp.fv, file, cap, srch)
            ELSE FallbackFail(lp.fv, file, srch,
                              IF lp.res # "Ok" THEN lp.res
                              ELSE IF lp.ret = 0 THEN "NoMatchFound"
                              ELSE "Cancelled")
    IN  Loaded(load_prev(fv, file, cap))

\* down_to_line_matching up to its first yield
down_to_line_matching(fv, file, cap, pat, skip_current) ==
    LET Find(fv1, st, srch) ==
            IF BufFindSupported(fv1.buf)
            THEN FastPathResult(fv1, file, cap,
                                RawFindWindow(file, pat, st.begin, st.end, Len(file)),
                                [srch EXCEPT !.kind = "find"])
            ELSE FallbackDownScan(fv1, file, cap, [srch EXCEPT !.kind = "fbdown"])
        From(fv1, st, state) ==
            Find(fv1, st, [kind |-> "none", pat |-> pat, begin |-> st.begin,
                           end |-> st.end, len |-> Len(file), state |-> state])
        Skipped(d) ==
            IF skip_current /\ d.res = "Panic" THEN Done(d.fv, "Panic")
            ELSE From(d.fv, RawFindStart(d.fv.buf, file), save_state(fv))
    IN  Skipped(IF skip_current THEN down(fv, file, cap, 1) ELSE [fv |-> fv, res |-> "Ok"])

\* up_to_line_matching up to its first yield
up_to_line_matching(fv, file, cap, pat) ==
    LET Find(st, srch) ==
            IF BufFindSupported(fv.buf)
            THEN FastPathResult(fv, file, cap,
                                RawRfindWindow(file, pat, st.begin, st.end),
                                [srch EXCEPT !.kind = "rfind"])
            ELSE FallbackUpScan(fv, file, cap, [srch EXCEPT !.kind = "fbup"])
        From(st, state) ==
            Find(st, [kind |-> "none", pat |-> pat, begin |-> st.begin,
                      end |-> st.end, len |-> Len(file), state |-> state])
    IN  From(RawRfindStart(fv.buf), save_state(fv))

\* a search resumed after a yield: the cancel flag is read first
SearchResume(fv, file, cap, srch, cancel) ==
    IF srch.kind \in {"find", "rfind"} THEN
        IF cancel THEN Done(fv, "Cancelled")
        ELSE FastPathResult(fv, file, cap,
                 IF srch.kind = "find"
                 THEN RawFindWindow(file, srch.pat, srch.begin, srch.end, srch.len)
                 ELSE RawRfindWindow(file, srch.pat, srch.begin, srch.end),
                 srch)
    ELSE IF srch.kind = "fbdown" THEN FallbackDownLoad(fv, file, cap, srch, cancel)
    ELSE FallbackUpLoad(fv, file, cap, srch, cancel)

\* ------------------------------------------------------------------------
\* ui/backend.rs: the broker
\* ------------------------------------------------------------------------
VARIABLES
    file,             \* the bytes of the file on disk
    fview,            \* CommandHandler.file_view
    follow,           \* CommandHandler.follow
    view_width,       \* CommandHandler.view_width
    view_height,      \* CommandHandler.view_height
    marks,            \* CommandHandler.marks
    command_errors,   \* CommandHandler.command_errors
    cancelled,        \* the shared cancel flag
    command_channel,  \* commands sent and not yet received, with their ticket
    cancel_channel,   \* cancel signals sent and not yet received
    prev_file_size,   \* local of CommandHandler::run
    published,        \* the last BackendState sent on the state channel
    pc,               \* where CommandHandler::run stands
    search,           \* the search in progress, if any
    current,          \* the command being handled: ticket, command, state before
    issued,           \* number of commands sent so far
    cancels,          \* number of cancel signals sent so far
    appends,          \* number of times the file has grown
    executed,         \* tickets of the commands handled, in order of completion
    drained,          \* tickets of the commands discarded by a cancel
    closed,           \* the channels whose other end has been dropped
    flagged,          \* history: how the cancel flag came to be set
    devec,            \* a DeVec<u8> on which the methods are called directly
    last              \* the last completed command: state before and after

vars == <<file, fview, follow, view_width, view_height, marks, command_errors,
          cancelled, command_channel, cancel_channel, prev_file_size, published,
          pc, search, current, issued, cancels, appends, executed, drained, closed,
          flagged, devec, last>>

MarkNames == {"a"}
PatM == <<CharM>>
PatZ == <<CharZ>>
RATIO_DEN == 2

\* Command values the front end sends
Cmd(op, arg) == [op |-> op, arg |-> arg]
Commands ==
    {Cmd("MoveLine", n) : n \in {-1, 1}}
    \cup {Cmd("JumpLine", n) : n \in {0}}
    \cup {Cmd("JumpFileRatio", n) : n \in {1}}
    \cup {Cmd("SearchDown", p) : p \in {PatM}}
    \cup {Cmd("SearchDownNext", p) : p \in {PatZ}}
    \cup {Cmd("SearchUp", p) : p \in {PatM}}
    \cup {Cmd("Follow", b) : b \in BOOLEAN}
    \cup {Cmd("Resize", [w |-> None, h |-> 2])}
    \cup {Cmd("SaveMark", n) : n \in MarkNames}
    \cup {Cmd("LoadMark", n) : n \in MarkNames}

IsSearch(cmd) == cmd.op \in {"SearchDown", "SearchDownNext", "SearchUp"}

\* the files the pager is opened on
RawFile1 == <<CharA, NL, CharM, CharA, NL, CharA, CharM, NL>>
Bz2File1 == BZ_HEADER \o MAGIC \o <<CharA, NL, CharM>>
                      \o MAGIC \o <<CharA, NL, CharM, NL>> \o BZ_FOOTER
\* a file whose last line has no newline
RawFile2 == <<CharA, NL, CharM, CharA>>
EmptyFile == <<>>
\* a bzip2 header followed by bytes that are not a compressed block
Bz2Corrupt == BZ_HEADER \o <<CharA, NL, CharM, NL>>
Files == {RawFile1, RawFile2, Bz2File1, Bz2Corrupt, EmptyFile}
AppendedLine == <<CharM, NL>>

\* a read of at most BUFFER_SIZE bytes is complete when the broker runs
ReadCaps == {BUFFER_SIZE}

NoMark == [set |-> FALSE, state |-> NoSearch.state]
NoCommand == [id |-> 0, cmd |-> Cmd("None", 0), pre |-> NoSearch.state, prepos |-> 0,
              at |-> -1]
NoLast == [id |-> 0, cmd |-> Cmd("None", 0), pre |-> NoSearch.state, prepos |-> 0,
           at |-> -1, post |-> NoSearch.state, postpos |-> 0, res |-> "Ok",
           ret |-> 0]

BackendStateNew ==
    [file_size |-> 0, errors |-> <<>>, current_line |-> None, offset |-> 0,
     text |-> <<>>, follow |-> FALSE, marks |-> {}]

\* the file position the view points at
ViewPos(fv) == BufRange(fv.buf).start + fv.vo

\* generate_state
generate_state(fv, cap, w, h, fol, mk, errs) ==
    LET State(v, offset_before, off) ==
            [fv |-> v.fv,
             res |-> IF v.res = "Panic" THEN "Panic" ELSE "Ok",
             state |-> [file_size |-> total_size(file),
                        errors |-> IF offset_before > off THEN Append(errs, "EOF")
                                   ELSE errs,
                        current_line |-> v.fv.cl,
                        offset |-> off,
                        text |-> IF v.res = "Ok" THEN v.text ELSE <<>>,
                        follow |-> fol,
                        marks |-> {n \in MarkNames : mk[n].set}]]
        Viewed(v) == State(v, offset(fv), offset(v.fv))
    IN  Viewed(view(fv, file, cap, h, w))

\* while self.file_view.down(1_000_000).await.is_ok() {}
RECURSIVE FollowLoop(_, _)
FollowLoop(fv, cap) ==
    LET Scrolled(d) == IF d.res = "Ok" THEN FollowLoop(d.fv, cap) ELSE d
    IN  Scrolled(down(fv, file, cap, FOLLOW_LINES))

\* the end of one iteration of CommandHandler::run: maybe_reload_file (the
\* path still names the same file), the follow scroll, send_state
RunTail(fv, cap, w, h, fol, mk, errs) ==
    LET Sent(f, g) == IF f.res = "Panic" THEN [g EXCEPT !.res = "Panic"] ELSE g
        Followed(f) == Sent(f, generate_state(f.fv, cap, w, h, fol, mk, errs))
    IN  Followed(IF fol THEN FollowLoop(fv, cap) ELSE [fv |-> fv, res |-> "Ok"])

\* handle_command for the commands that are not searches
handle_command(fv, cap, cmd, w, h, fol, mk) ==
    LET same == [fv |-> fv, res |-> "Ok"]
        Handled(r) ==
            [fv |-> r.fv, res |-> r.res,
             follow |-> IF cmd.op = "Follow" THEN cmd.arg ELSE fol,
             w |-> IF cmd.op = "Resize" THEN cmd.arg.w ELSE w,
             h |-> IF cmd.op = "Resize" THEN cmd.arg.h ELSE h,
             marks |-> IF cmd.op = "SaveMark"
                       THEN [mk EXCEPT ![cmd.arg] =
                                         [set |-> TRUE, state |-> save_state(fv)]]
                       ELSE mk]
    IN  Handled(IF cmd.op = "Follow" THEN bottom(fv, file)
                ELSE IF cmd.op = "MoveLine" THEN
                    (IF cmd.arg > 0 THEN down(fv, file, cap, cmd.arg)
                     ELSE IF cmd.arg < 0 THEN up(fv, file, cap, 0 - cmd.arg)
                     ELSE same)
                ELSE IF cmd.op = "JumpLine" THEN jump_to_line(fv, file, cap, cmd.arg)
                ELSE IF cmd.op = "JumpFileRatio"
                THEN jump_to_byte(fv, file, cap,
                                  (total_size(file) * cmd.arg) \div RATIO_DEN)
                ELSE IF cmd.op = "LoadMark" THEN
                    (IF mk[cmd.arg].set THEN load_state(fv, file, mk[cmd.arg].state)
                     ELSE [fv |-> fv, res |-> "UnknownMark"])
                ELSE same)

\* the state after Backend::new on one of the given files
Started(files) ==
    /\ file \in files
    /\ fview = FileViewNew(file)
    /\ follow = FALSE
    /\ view_width = None
    /\ view_height = 0
    /\ marks = [n \in MarkNames |-> NoMark]
    /\ command_errors = <<>>
    /\ cancelled = FALSE
    /\ command_channel = <<>>
    /\ cancel_channel = 0
    /\ prev_file_size = 0
    /\ published = BackendStateNew
    /\ pc = IF HeaderRead(file) THEN "start" ELSE "panicked"
    /\ search = NoSearch
    /\ current = NoCommand
    /\ issued = 0
    /\ cancels = 0
    /\ appends = 0
    /\ executed = <<>>
    /\ drained = {}
    /\ closed = {}
    /\ flagged = [idle |-> FALSE, issued |-> 0]
    /\ devec = DeVecNew
    /\ last = NoLast

Init == Started(Files)

\* ---- the environment ----
\* the front end sends a command
SendCommand ==
    /\ issued < MaxCmds
    /\ pc # "panicked"
    /\ "command" \notin closed
    /\ \E c \in Commands :
         command_channel' = Append(command_channel, [id |-> issued + 1, cmd |-> c])
    /\ issued' = issued + 1
    /\ UNCHANGED <<devec, closed, flagged, file, fview, follow, view_width, view_height, marks,
                   command_errors,
                   cancelled, cancel_channel, prev_file_size, published, pc, search,
                   current, cancels, appends, executed, drained, last>>

\* the front end sends a cancel signal
SendCancel ==
    /\ cancels < MaxCancels
    /\ pc # "panicked"
    /\ "cancel" \notin closed
    /\ cancel_channel' = cancel_channel + 1
    /\ cancels' = cancels + 1
    /\ UNCHANGED <<devec, closed, flagged, file, fview, follow, view_width, view_height, marks,
                   command_errors,
                   cancelled, command_channel, prev_file_size, published, pc, search,
                   current, issued, appends, executed, drained, last>>

\* another process appends a line to the (uncompressed) file
FileGrows ==
    /\ appends < MaxAppends
    /\ pc # "panicked"
    /\ ~IsBz2(file)
    /\ file' = file \o AppendedLine
    /\ appends' = appends + 1
    /\ UNCHANGED <<devec, closed, flagged, fview, follow, view_width, view_height, marks,
                   command_errors,
                   cancelled, command_channel, cancel_channel, prev_file_size,
                   published, pc, search, current, issued, cancels, executed,
                   drained, last>>

\* ---- CancelHandler::run ----
\* flagged remembers whether every signal that set the flag arrived while the
\* command handler was waiting with an empty queue, and how many commands
\* had been sent by then
CancelHandlerRun ==
    /\ cancel_channel > 0
    /\ pc \notin {"panicked", "terminated"}
    /\ cancel_channel' = cancel_channel - 1
    /\ cancelled' = TRUE
    /\ flagged' = [idle |-> /\ pc = "select" /\ command_channel = <<>>
                            /\ cancelled => flagged.idle,
                   issued |-> IF cancelled THEN flagged.issued ELSE issued]
    /\ UNCHANGED <<devec, closed, file, fview, follow, view_width, view_height, marks,
                   command_errors, command_channel, prev_file_size, published, pc,
                   search, current, issued, cancels, appends, executed, drained, last>>

\* ---- CommandHandler::run ----
\* a receive that takes the newest pending command
recv_newest(channel) ==
    [msg |-> channel[Len(channel)], rest |-> SubSeq(channel, 1, Len(channel) - 1)]

\* command_receiver.recv(): the oldest pending command
recv(channel) == [msg |-> Head(channel), rest |-> Tail(channel)]

\* a store that leaves the flag as it was
store_skipped(flag, val) == flag

\* self.cancelled.store(false, Ordering::Release)
store(flag, val) == val

\* a flush that calls try_recv once
flush_first(channel) == IF channel = <<>> THEN <<>> ELSE Tail(channel)

\* while let Ok(_) = self.command_receiver.try_recv() {}
flush_pending(channel) == <<>>

Tickets(channel) == {channel[i].id : i \in 1..Len(channel)}

\* what every iteration that reaches send_state does after handle_command
\* returned res and left the view fv
Complete(cur, fv, res, cap, w, h, fol, mk) ==
    LET errs == IF res = "Ok" THEN <<>> ELSE <<res>>
        Sent(tail, panic) ==
            /\ command_errors' = errs
            /\ fview' = IF res = "Panic" THEN fv ELSE tail.fv
            /\ published' = IF panic \/ "state" \in closed THEN published
                             ELSE tail.state
            /\ pc' = IF panic THEN "panicked"
                     ELSE IF "state" \in closed THEN "terminated" ELSE "loop"
            /\ follow' = fol
            /\ view_width' = w
            /\ view_height' = h
            /\ marks' = mk
            /\ search' = NoSearch
            /\ current' = NoCommand
            /\ executed' = Append(executed, cur.id)
            /\ last' = [id |-> cur.id, cmd |-> cur.cmd, pre |-> cur.pre,
                        prepos |-> cur.prepos, at |-> cur.at, post |-> save_state(fv),
                        postpos |-> ViewPos(fv), res |-> res, ret |-> 0]
        Ran(tail) == Sent(tail, res = "Panic" \/ tail.res = "Panic")
    IN  Ran(RunTail(fv, cap, w, h, fol, mk, errs))

\* run(), before the loop: the initial state is published
Start ==
    /\ pc = "start"
    /\ \E cap \in ReadCaps :
         LET Sent(g) ==
                 /\ fview' = g.fv
                 /\ published' = IF g.res = "Panic" \/ "state" \in closed
                                  THEN published ELSE g.state
                 /\ pc' = IF g.res = "Panic" THEN "panicked"
                          ELSE IF "state" \in closed THEN "terminated" ELSE "loop"
         IN  Sent(generate_state(fview, cap, view_width, view_height, follow, marks,
                                 command_errors))
    /\ UNCHANGED <<devec, closed, flagged, file, follow, view_width, view_height, marks,
                   command_errors,
                   cancelled, command_channel, cancel_channel, prev_file_size, search,
                   current, issued, cancels, appends, executed, drained, last>>

\* the top of the loop: a set cancel flag flushes the pending commands
LoopTop ==
    /\ pc = "loop"
    /\ IF cancelled
       THEN /\ command_channel' = flush_pending(command_channel)
            /\ drained' = drained \cup (Tickets(command_channel) \ Tickets(command_channel'))
            /\ cancelled' = store(cancelled, FALSE)
       ELSE UNCHANGED <<command_channel, drained, cancelled>>
    /\ pc' = "select"
    /\ UNCHANGED <<devec, closed, flagged, file, fview, follow, view_width, view_height, marks,
                   command_errors,
                   cancel_channel, prev_file_size, published, search, current, issued,
                   cancels, appends, executed, last>>

\* select!: a command that is not a search is received and handled
HandleCommand ==
    /\ pc = "select"
    /\ command_channel # <<>>
    /\ LET r == recv(command_channel)
           cur == [id |-> r.msg.id, cmd |-> r.msg.cmd, pre |-> save_state(fview),
                   prepos |-> ViewPos(fview), at |-> -1]
       IN  /\ ~IsSearch(r.msg.cmd)
           /\ command_channel' = r.rest
           /\ \E cap \in ReadCaps :
                LET Handled(hc) ==
                        Complete(cur, hc.fv, hc.res, cap, hc.w, hc.h, hc.follow, hc.marks)
                IN  Handled(handle_command(fview, cap, r.msg.cmd, view_width,
                                           view_height, follow, marks))
    /\ UNCHANGED <<devec, closed, flagged, file, cancelled, cancel_channel, prev_file_size,
                   issued,
                   cancels,
                   appends, drained>>

\* what a search step leaves: the command is over, or the search yields
SearchOutcome(cur, r, cap) ==
    IF r.done
    THEN Complete([cur EXCEPT !.at = r.at], r.fv, r.res, cap, view_width, view_height,
                  follow, marks)
    ELSE /\ fview' = r.fv
         /\ search' = r.srch
         /\ current' = cur
         /\ pc' = "searching"
         /\ command_errors' = <<>>
         /\ UNCHANGED <<published, follow, view_width, view_height, marks, executed,
                        last>>

\* select!: a search command is received and runs up to its first yield
HandleSearch ==
    /\ pc = "select"
    /\ command_channel # <<>>
    /\ LET r == recv(command_channel)
           cur == [id |-> r.msg.id, cmd |-> r.msg.cmd, pre |-> save_state(fview),
                   prepos |-> ViewPos(fview), at |-> -1]
       IN  /\ IsSearch(r.msg.cmd)
           /\ command_channel' = r.rest
           /\ \E cap \in ReadCaps :
                SearchOutcome(cur,
                    IF r.msg.cmd.op = "SearchUp"
                    THEN up_to_line_matching(fview, file, cap, r.msg.cmd.arg)
                    ELSE down_to_line_matching(fview, file, cap, r.msg.cmd.arg,
                                               r.msg.cmd.op = "SearchDownNext"),
                    cap)
    /\ UNCHANGED <<devec, closed, flagged, file, cancelled, cancel_channel, prev_file_size,
                   issued,
                   cancels,
                   appends, drained>>

\* the search resumes after a yield
SearchStep ==
    /\ pc = "searching"
    /\ \E cap \in ReadCaps :
         SearchOutcome(current, SearchResume(fview, file, cap, search, cancelled), cap)
    /\ UNCHANGED <<devec, closed, flagged, file, cancelled, command_channel, cancel_channel,
                   prev_file_size,
                   issued, cancels, appends, drained>>

\* select!: the timer fires; nothing is published unless the size changed
TimerTick ==
    /\ pc = "select"
    /\ command_channel = <<>>
    /\ "command" \notin closed
    /\ IF total_size(file) = prev_file_size
       THEN /\ pc' = "loop"
            /\ UNCHANGED <<fview, published, prev_file_size>>
       ELSE /\ prev_file_size' = total_size(file)
            /\ \E cap \in ReadCaps :
                 LET Sent(tail) ==
                         /\ fview' = tail.fv
                         /\ published' =
                                IF tail.res = "Panic" \/ "state" \in closed
                                THEN published ELSE tail.state
                         /\ pc' = IF tail.res = "Panic" THEN "panicked"
                                  ELSE IF "state" \in closed THEN "terminated"
                                  ELSE "loop"
                 IN  Sent(RunTail(fview, cap, view_width, view_height, follow, marks,
                                  command_errors))
    /\ UNCHANGED <<devec, closed, flagged, file, follow, view_width, view_height, marks,
                   command_errors,
                   cancelled, command_channel, cancel_channel, search, current, issued,
                   cancels, appends, executed, drained, last>>

Next ==
    \/ SendCommand
    \/ SendCancel
    \/ CancelHandlerRun
    \/ Start
    \/ LoopTop
    \/ HandleCommand
    \/ HandleSearch
    \/ SearchStep
    \/ TimerTick

Spec == Init /\ [][Next]_vars

\* the broker under its scheduler: the executor polls the command handler
\* whenever it can make a step, and the timer of select! fires when no
\* command is waiting
SpecLive ==
    /\ Init
    /\ [][Next]_vars
    /\ WF_vars(LoopTop)
    /\ (<>[](pc = "start") => []<><<Start>>_vars)
    /\ (<>[](pc = "select" /\ command_channel # <<>>)
          => []<><<HandleCommand \/ HandleSearch>>_vars)
    /\ (<>[](pc = "searching") => []<><<SearchStep>>_vars)
    /\ (<>[](pc = "select" /\ command_channel = <<>>) => []<><<TimerTick>>_vars)

\* ------------------------------------------------------------------------
\* The broker while the file grows (SpecFollow): the front end resizes the
\* view, switches follow mode and scrolls; the executor runs the command
\* handler whenever it can make a step, and the timer of select! fires.
\* ------------------------------------------------------------------------
FollowCommands ==
    {Cmd("Resize", [w |-> None, h |-> 2]), Cmd("Follow", TRUE), Cmd("Follow", FALSE),
     Cmd("MoveLine", -1)}

SendFollowCommand ==
    /\ issued < MaxCmds
    /\ pc # "panicked"
    /\ "command" \notin closed
    /\ \E c \in FollowCommands :
         command_channel' = Append(command_channel, [id |-> issued + 1, cmd |-> c])
    /\ issued' = issued + 1
    /\ UNCHANGED <<devec, closed, flagged, file, fview, follow, view_width, view_height, marks,
                   command_errors,
                   cancelled, cancel_channel, prev_file_size, published, pc, search,
                   current, cancels, appends, executed, drained, last>>

NextFollow ==
    \/ SendFollowCommand
    \/ SendCancel
    \/ FileGrows
    \/ CancelHandlerRun
    \/ Start
    \/ LoopTop
    \/ HandleCommand
    \/ TimerTick

\* The runtime runs the command handler whenever it can take a step: weak
\* fairness of each of its steps.  For the steps that build a view the
\* enabling condition is written out: WF_vars(A) is
\* <>[](ENABLED <<A>>_vars) => []<><<A>>_vars.
SpecFollow ==
    /\ Init
    /\ [][NextFollow]_vars
    /\ (<>[](pc = "start") => []<><<Start>>_vars)
    /\ WF_vars(LoopTop)
    /\ (<>[](pc = "select" /\ command_channel # <<>>) => []<><<HandleCommand>>_vars)
    /\ (<>[](pc = "select" /\ command_channel = <<>>) => []<><<TimerTick>>_vars)

\* ------------------------------------------------------------------------
\* The broker when the front end drops its ends of the channels (SpecClose)
\* ------------------------------------------------------------------------
Channels == {"command", "cancel", "state"}

\* the front end drops a sender, or the receiver of the published states
CloseChannel ==
    /\ pc # "panicked"
    /\ \E ch \in Channels \ closed : closed' = closed \cup {ch}
    /\ UNCHANGED <<devec, flagged, file, fview, follow, view_width, view_height, marks,
                   command_errors,
                   cancelled, command_channel, cancel_channel, prev_file_size,
                   published, pc, search, current, issued, cancels, appends, executed,
                   drained, last>>

\* CancelHandler::run: recv() returns None, run returns the error and the
\* select! of Backend::run drops the command handler where it stands
CancelHandlerEnds ==
    /\ pc \notin {"panicked", "terminated"}
    /\ "cancel" \in closed
    /\ cancel_channel = 0
    /\ pc' = "terminated"
    /\ UNCHANGED <<devec, closed, flagged, file, fview, follow, view_width, view_height, marks,
                   command_errors, cancelled, command_channel, cancel_channel,
                   prev_file_size, published, search, current, issued, cancels,
                   appends, executed, drained, last>>

\* a command handler that goes back to the top of its loop on None
CommandChannelIgnored ==
    /\ pc = "select"
    /\ "command" \in closed
    /\ command_channel = <<>>
    /\ pc' = "loop"
    /\ UNCHANGED <<devec, closed, flagged, file, fview, follow, view_width, view_height, marks,
                   command_errors, cancelled, command_channel, cancel_channel,
                   prev_file_size, published, search, current, issued, cancels,
                   appends, executed, drained, last>>

\* select!: recv() returns None, CommandHandler::run returns the error
CommandChannelError ==
    /\ pc = "select"
    /\ "command" \in closed
    /\ command_channel = <<>>
    /\ pc' = "terminated"
    /\ UNCHANGED <<devec, closed, flagged, file, fview, follow, view_width, view_height, marks,
                   command_errors, cancelled, command_channel, cancel_channel,
                   prev_file_size, published, search, current, issued, cancels,
                   appends, executed, drained, last>>

NextClose ==
    \/ SendCommand
    \/ SendCancel
    \/ CloseChannel
    \/ CancelHandlerRun
    \/ CancelHandlerEnds
    \/ Start
    \/ LoopTop
    \/ HandleCommand
    \/ HandleSearch
    \/ SearchStep
    \/ TimerTick
    \/ CommandChannelError

SpecClose == Init /\ [][NextClose]_vars

\* ---- the broker when the path of the file stops resolving (the file is
\* renamed or removed while it is open) ----
\* select!: the timer fires, the size differs from prev_file_size, and
\* maybe_reload_file returns the error of canonicalize: run() returns it
ReloadFails ==
    /\ pc = "select"
    /\ command_channel = <<>>
    /\ "command" \notin closed
    /\ total_size(file) # prev_file_size
    /\ prev_file_size' = total_size(file)
    /\ pc' = "terminated"
    /\ UNCHANGED <<devec, closed, flagged, file, fview, follow, view_width, view_height, marks,
                   command_errors, cancelled, command_channel, cancel_channel,
                   published, search, current, issued, cancels, appends, executed,
                   drained, last>>

NextReload == Next \/ ReloadFails

SpecReload == Init /\ [][NextReload]_vars

\* ------------------------------------------------------------------------
\* The FileView driven directly: one action per public method, applied to
\* whatever state the earlier calls left (SpecView).  last records the call.
\* ------------------------------------------------------------------------
MaxOps == 3
LineCounts == {1, 2}
LineTargets == {-1, 0, 2}
ViewSizes == {[w |-> None, h |-> 0], [w |-> None, h |-> 2], [w |-> Some(1), h |-> 2]}
SearchPatterns == {PatM, PatZ}
\* the resume at which a search first sees the cancel flag set (-1: never)
CancelPoints == {-1, 0, 1}

RECURSIVE RunSearch(_, _, _, _)
RunSearch(r, cap, cancelAt, n) ==
    IF r.done THEN r
    ELSE RunSearch(SearchResume(r.fv, file, cap, r.srch, cancelAt >= 0 /\ n >= cancelAt),
                   cap, cancelAt, n + 1)

\* the call cmd returned res and left the view fv
Called(cmd, fv, res, at, mk) ==
    /\ issued < MaxOps
    /\ pc # "panicked"
    /\ issued' = issued + 1
    /\ fview' = fv
    /\ marks' = mk
    /\ pc' = IF res = "Panic" THEN "panicked" ELSE pc
    /\ last' = [id |-> issued + 1, cmd |-> cmd, pre |-> save_state(fview),
                prepos |-> ViewPos(fview), at |-> at, post |-> save_state(fv),
                postpos |-> ViewPos(fv), res |-> res, ret |-> 0]
    /\ UNCHANGED <<devec, closed, flagged, file, follow, view_width, view_height, command_errors,
                   cancelled,
                   command_channel, cancel_channel, prev_file_size, published, search,
                   current, cancels, appends, executed, drained>>

CallUp ==
    \E n \in LineCounts, cap \in ReadCaps :
        LET Ret(r) == Called(Cmd("up", n), r.fv, r.res, -1, marks)
        IN  Ret(up(fview, file, cap, n))

CallDown ==
    \E n \in LineCounts, cap \in ReadCaps :
        LET Ret(r) == Called(Cmd("down", n), r.fv, r.res, -1, marks)
        IN  Ret(down(fview, file, cap, n))

\* up(n) and, when it returned Ok, down(n) right after it
CallUpThenDown ==
    \E n \in LineCounts, cap \in ReadCaps :
        LET Ret(r) == Called(Cmd("up_down", n), r.fv, r.res, -1, marks)
            Back(u) == IF u.res # "Ok" THEN u ELSE down(u.fv, file, cap, n)
        IN  Ret(Back(up(fview, file, cap, n)))

CallJumpToLine ==
    \E n \in LineTargets, cap \in ReadCaps :
        LET Ret(r) == Called(Cmd("jump_to_line", n), r.fv, r.res, -1, marks)
        IN  Ret(jump_to_line(fview, file, cap, n))

CallJumpToByte ==
    \E b \in 0..total_size(file), cap \in ReadCaps :
        LET Ret(r) == Called(Cmd("jump_to_byte", b), r.fv, r.res, -1, marks)
        IN  Ret(jump_to_byte(fview, file, cap, b))

CallTop ==
    \E cap \in ReadCaps :
        LET Ret(r) == Called(Cmd("top", 0), r.fv, r.res, -1, marks)
        IN  Ret(top(fview, file, cap))

CallBottom ==
    LET Ret(r) == Called(Cmd("bottom", 0), r.fv, r.res, -1, marks)
    IN  Ret(bottom(fview, file))

CallDownToLineMatching ==
    \E p \in SearchPatterns, skip \in BOOLEAN, c \in CancelPoints, cap \in ReadCaps :
        LET Ret(r) == Called(Cmd(IF skip THEN "SearchDownNext" ELSE "SearchDown", p),
                             r.fv, r.res, r.at, marks)
        IN  Ret(RunSearch(down_to_line_matching(fview, file, cap, p, skip), cap, c, 0))

CallUpToLineMatching ==
    \E p \in SearchPatterns, c \in CancelPoints, cap \in ReadCaps :
        LET Ret(r) == Called(Cmd("SearchUp", p), r.fv, r.res, r.at, marks)
        IN  Ret(RunSearch(up_to_line_matching(fview, file, cap, p), cap, c, 0))

CallSaveState ==
    \E n \in MarkNames :
        Called(Cmd("save_state", n), fview, "Ok", -1,
               [marks EXCEPT ![n] = [set |-> TRUE, state |-> save_state(fview)]])

CallLoadState ==
    \E n \in MarkNames :
        /\ marks[n].set
        /\ LET Ret(r) == Called(Cmd("load_state", n), r.fv, r.res, -1, marks)
           IN  Ret(load_state(fview, file, marks[n].state))

CallView ==
    \E sz \in ViewSizes, cap \in ReadCaps :
        LET Ret(r) == Called(Cmd("view", [h |-> sz.h, w |-> sz.w, size |-> Len(file),
                                          text |-> r.text]),
                             r.fv, r.res, -1, marks)
        IN  Ret(view(fview, file, cap, sz.h, sz.w))

NextView ==
    \/ CallUp
    \/ CallDown
    \/ CallUpThenDown
    \/ CallJumpToLine
    \/ CallJumpToByte
    \/ CallTop
    \/ CallBottom
    \/ CallDownToLineMatching
    \/ CallUpToLineMatching
    \/ CallSaveState
    \/ CallLoadState
    \/ CallView
    \/ FileGrows

SpecView == Init /\ [][NextView]_vars

\* ---- the loads of the FileView, called as up(), down(), view() and the
\* searches call them (SpecLoad)
CallLoadPrev ==
    \E cap \in ReadCaps :
        LET Ret(r) == Called(Cmd("FileView::load_prev", r.ret), r.fv, r.res, -1, marks)
        IN  Ret(load_prev(fview, file, cap))

CallLoadNext ==
    \E cap \in ReadCaps :
        LET Ret(r) == Called(Cmd("FileView::load_next", r.ret), r.fv, r.res, -1, marks)
        IN  Ret(load_next(fview, file, cap))

NextLoad ==
    \/ CallLoadPrev
    \/ CallLoadNext
    \/ CallUp
    \/ CallDown
    \/ CallJumpToLine
    \/ CallJumpToByte
    \/ CallBottom

SpecLoad == Init /\ [][NextLoad]_vars

\* ------------------------------------------------------------------------
\* The FileBuffer driven directly, reads may be short (SpecBuf)
\* ------------------------------------------------------------------------
ShortReadCaps == 1..BUFFER_SIZE

\* the call cmd returned ret (res: "Ok" or the error) and left the buffer r.buf
BufferCalled(cmd, r, ret) ==
    /\ pc # "panicked"
    /\ fview' = [fview EXCEPT !.buf = r.buf]
    /\ pc' = IF r.res = "Panic" THEN "panicked" ELSE pc
    /\ last' = [NoLast EXCEPT !.cmd = cmd, !.res = r.res, !.ret = ret]
    /\ UNCHANGED <<devec, closed, flagged, file, follow, view_width, view_height, marks,
                   command_errors,
                   cancelled, command_channel, cancel_channel, prev_file_size,
                   published, search, current, issued, cancels, appends, executed,
                   drained>>

BufferJump ==
    \E b \in 0..total_size(file) :
        LET Ret(r) == BufferCalled(Cmd("jump", b), r, r.ret)
        IN  Ret(BufJump(fview.buf, file, b))

BufferLoadPrev ==
    \E cap \in ShortReadCaps :
        LET Ret(r) == BufferCalled(Cmd("load_prev", cap), r, r.ret)
        IN  Ret(BufLoadPrev(fview.buf, file, cap))

BufferLoadNext ==
    \E cap \in ShortReadCaps :
        LET Ret(r) == BufferCalled(Cmd("load_next", cap), r, r.ret)
        IN  Ret(BufLoadNext(fview.buf, file, cap))

BufferShrinkTo ==
    \E start \in 0..Len(fview.buf.data) :
        \E end \in start..Len(fview.buf.data) :
            LET Ret(r) == BufferCalled(Cmd("shrink_to", [start |-> start, end |-> end]),
                                       r, [start |-> r.start, end |-> r.end])
            IN  Ret(BufShrinkTo(fview.buf, start, end))

NextBuf ==
    \/ BufferJump
    \/ BufferLoadPrev
    \/ BufferLoadNext
    \/ BufferShrinkTo

SpecBuf == Init /\ [][NextBuf]_vars

\* ------------------------------------------------------------------------
\* The raw FileBuffer when seeks and reads may fail (SpecIo)
\* ------------------------------------------------------------------------
\* what a failed read may leave in the slice it was given
Junk == {<<>>, <<CharM>>, <<CharM, NL>>}

\* the read cap recorded for a call whose I/O failed is -1
BufferLoadPrevFails ==
    /\ fview.buf.kind = "raw"
    /\ \E junk \in Junk :
         LET Ret(r) == BufferCalled(Cmd("load_prev", -1), r, r.ret)
         IN  Ret(RawLoadPrevFailed(fview.buf, junk))

BufferLoadNextFails ==
    /\ fview.buf.kind = "raw"
    /\ \E junk \in Junk :
         LET Ret(r) == BufferCalled(Cmd("load_next", -1), r, r.ret)
         IN  Ret(RawLoadNextFailed(fview.buf, junk))

NextIo ==
    \/ BufferJump
    \/ BufferLoadPrev
    \/ BufferLoadNext
    \/ BufferShrinkTo
    \/ BufferLoadPrevFails
    \/ BufferLoadNextFails

SpecIo == Init /\ [][NextIo]_vars

\* ------------------------------------------------------------------------
\* A DeVec<u8> driven directly, one action per method (SpecVec)
\* ------------------------------------------------------------------------
\* sizes asked of the resizes and of shrink_to
MaxVecLen == 3
\* the Vec is not grown past this length
MaxVecCap == 8

VecCalled(cmd, v) ==
    /\ Len(v.data) <= MaxVecCap
    /\ devec' = v
    /\ last' = [NoLast EXCEPT !.cmd = cmd]
    /\ UNCHANGED <<file, fview, follow, view_width, view_height, marks, command_errors,
                   cancelled, command_channel, cancel_channel, prev_file_size,
                   published, pc, search, current, issued, cancels, appends, executed,
                   drained, closed, flagged>>

VecResizeBack ==
    \E n \in 0..MaxVecLen : VecCalled(Cmd("resize_back", n), resize_back(devec, n))

VecResizeFront ==
    \E n \in 0..MaxVecLen : VecCalled(Cmd("resize_front", n), resize_front(devec, n))

VecClear == VecCalled(Cmd("clear", 0), clear(devec))

VecShrinkTo ==
    \E n \in 0..MaxVecLen : VecCalled(Cmd("shrink_to", n), DeVecShrinkTo(devec, n))

\* as_mut_slice()[i] = b'm'
VecWrite ==
    \E i \in 1..(Len(devec.data) - devec.offset) :
        VecCalled(Cmd("write", i), [devec EXCEPT !.data[devec.offset + i] = CharM])

NextVec ==
    \/ VecResizeBack
    \/ VecResizeFront
    \/ VecClear
    \/ VecShrinkTo
    \/ VecWrite

SpecVec == Init /\ [][NextVec]_vars

\* ---- find and rfind of the raw buffer, run to their end with no cancel,
\* on every file of 4 to MaxFindLen bytes over two letters ----
MaxFindLen == 6
FindFiles == UNION {[1..n -> {CharA, CharM}] : n \in 4..MaxFindLen}
FindPatterns == {<<CharM>>, <<CharM, CharA>>, <<CharM, CharM>>}
\* scaled values of (FIND_WINDOW, FIND_OVERLAP), the overlap below the window
FindScales == {[window |-> 4, overlap |-> 1], [window |-> 4, overlap |-> 2],
               [window |-> 3, overlap |-> 2]}

RECURSIVE FindLoop(_, _, _, _)
FindLoop(mmap, pat, w, sc) ==
    LET Scanned(r) == IF r.out = "more" THEN FindLoop(mmap, pat, r, sc) ELSE r
    IN  Scanned(FindWindowAt(mmap, pat, w.begin, w.end, Len(mmap), sc.window, sc.overlap))

RECURSIVE RfindLoop(_, _, _, _)
RfindLoop(mmap, pat, w, sc) ==
    LET Scanned(r) == IF r.out = "more" THEN RfindLoop(mmap, pat, r, sc) ELSE r
    IN  Scanned(RfindWindowAt(mmap, pat, w.begin, w.end, sc.window, sc.overlap))

BufferFind ==
    \E pat \in FindPatterns, sc \in FindScales :
        LET start == fview.buf.offset
            Ret(r) == BufferCalled(Cmd("find", [pat |-> pat, start |-> start, sc |-> sc]),
                                   [buf |-> fview.buf, res |-> "Ok"],
                                   IF r.out = "found" THEN Some(r.at) ELSE None)
        IN  Ret(FindLoop(file, pat,
                         [begin |-> start, end |-> Min(start + sc.window, Len(file))], sc))

BufferRfind ==
    \E pat \in FindPatterns, sc \in FindScales :
        LET start == fview.buf.offset
            Ret(r) == BufferCalled(Cmd("rfind", [pat |-> pat, start |-> start, sc |-> sc]),
                                   [buf |-> fview.buf, res |-> "Ok"],
                                   IF r.out = "found" THEN Some(r.at) ELSE None)
        IN  Ret(RfindLoop(file, pat,
                          [begin |-> SatSub(start, sc.window), end |-> start], sc))

InitFind == Started(FindFiles)

NextFind == BufferJump \/ BufferFind \/ BufferRfind

SpecFind == InitFind /\ [][NextFind]_vars

\* ---- seek_from and rseek_from of the compressed buffer, called on the
\* buffer and resumed pass by pass, while the cancel handler may run ----
SeekOffsets(b) == 0..(Len(b.data) + 1)

\* a pass of seek_from or rseek_from has run: the call is pending at its
\* yield_now, or it has returned
SeekStepped(cmd, r) ==
    /\ fview' = [fview EXCEPT !.buf = r.buf]
    /\ search' = IF r.out = "more"
                 THEN [NoSearch EXCEPT !.kind = cmd.op, !.pat = cmd.arg,
                                       !.begin = r.begin, !.end = r.end]
                 ELSE NoSearch
    /\ pc' = IF r.out = "panic" THEN "panicked" ELSE pc
    /\ last' = IF r.out = "more" THEN last
               ELSE [NoLast EXCEPT
                       !.cmd = cmd,
                       !.res = CASE r.out = "found" -> "Ok"
                                 [] r.out = "none" -> "NoMatchFound"
                                 [] r.out = "interrupted" -> "Cancelled"
                                 [] r.out = "panic" -> "Panic"
                                 [] OTHER -> "Other",
                       !.ret = r.at]
    /\ UNCHANGED <<devec, closed, flagged, file, follow, view_width, view_height, marks,
                   command_errors, cancelled, command_channel, cancel_channel,
                   prev_file_size, published, current, issued, cancels, appends,
                   executed, drained>>

SeekJump ==
    /\ search = NoSearch
    /\ BufferJump

SeekFromStart ==
    /\ pc # "panicked"
    /\ search = NoSearch
    /\ fview.buf.kind = "bz2"
    /\ \E pat \in SearchPatterns, off \in SeekOffsets(fview.buf) :
         LET From(begin) ==
                 SeekStepped(Cmd("seek_from", pat),
                             Bz2SeekFrom(fview.buf, file, pat, begin,
                                         Min(begin + FIND_WINDOW, Len(fview.buf.data)),
                                         cancelled))
         IN  From(Min(off, Len(fview.buf.data)))

RseekFromStart ==
    /\ pc # "panicked"
    /\ search = NoSearch
    /\ fview.buf.kind = "bz2"
    /\ \E pat \in SearchPatterns, off \in SeekOffsets(fview.buf) :
         LET From(end) ==
                 SeekStepped(Cmd("rseek_from", pat),
                             Bz2RseekFrom(fview.buf, file, pat, SatSub(end, FIND_WINDOW),
                                          end, cancelled))
         IN  From(Min(off, Len(fview.buf.data)))

\* the executor polls the pending call again
SeekResume ==
    /\ pc # "panicked"
    /\ search.kind \in {"seek_from", "rseek_from"}
    /\ SeekStepped(Cmd(search.kind, search.pat),
                   IF search.kind = "seek_from"
                   THEN Bz2SeekFrom(fview.buf, file, search.pat, search.begin, search.end,
                                    cancelled)
                   ELSE Bz2RseekFrom(fview.buf, file, search.pat, search.begin,
                                     search.end, cancelled))

NextSeek ==
    \/ SeekJump
    \/ SeekFromStart
    \/ RseekFromStart
    \/ SeekResume
    \/ SendCancel
    \/ CancelHandlerRun

SpecSeek == Init /\ [][NextSeek]_vars

\* ------------------------------------------------------------------------
\* Properties
\* ------------------------------------------------------------------------
IsRaw == fview.buf.kind = "raw"

\* start of the line of the file that holds byte p
LineStart(bytes, p) ==
    LET nls == {i \in 0..(p - 1) : i < Len(bytes) /\ bytes[i + 1] = NL}
    IN  IF nls = {} THEN 0 ELSE 1 + CHOOSE i \in nls : \A j \in nls : j <= i

ExecutedSet == {executed[i] : i \in 1..Len(executed)}

\* C1: commands are executed in the order they were enqueued (tickets are
\* handed out in enqueue order), one at a time: the tickets of the completed
\* commands increase, a command in progress is newer than every completed
\* one, and every command still queued is newer than all of them.
C1_FifoOrder ==
    /\ \A i, j \in 1..Len(executed) : i < j => executed[i] < executed[j]
    /\ (pc = "searching") <=> (current.id # 0)
    /\ \A e \in ExecutedSet : current.id # 0 => e < current.id
    /\ \A k \in 1..Len(command_channel) :
          /\ command_channel[k].id > current.id
          /\ \A e \in ExecutedSet : e < command_channel[k].id
    /\ \A k, l \in 1..Len(command_channel) :
          k < l => command_channel[k].id < command_channel[l].id

\* two commands were executed, the second one a search that yielded
C1_Witness == Len(executed) = 2 /\ last.id = 2

\* C2: when the command handler sees the cancel flag set at the top of its
\* loop, the queue is empty and the flag false right afterwards, and no
\* discarded command is ever executed.
C2_CancelDrains ==
    /\ [][(pc = "loop" /\ cancelled /\ pc' = "select")
            => (command_channel' = <<>> /\ ~cancelled')]_vars
    /\ [](drained \cap (ExecutedSet \cup {current.id}) = {})

\* a cancel discarded two queued commands
C2_Witness == Cardinality(drained) = 2 /\ ~cancelled /\ command_channel = <<>>

\* C3: a search that observes the cancel flag ends with Cancelled, the state
\* published for it carries the Cancelled error, and the view's triple is
\* the one it had before the search command started.
C3_CancelRestores ==
    (IsSearch(last.cmd) /\ last.res = "Cancelled")
        => /\ last.post = last.pre
           /\ \E i \in 1..Len(published.errors) : published.errors[i] = "Cancelled"

\* C4: a search that finds no match returns NoMatchFound and save_state()
\* after it equals save_state() before it.
C4_NoMatchUnchanged ==
    (IsSearch(last.cmd) /\ last.res = "NoMatchFound") => last.post = last.pre

\* C5: after a successful SearchDown the view starts at the line that holds
\* the start of the match found (stated where the buffer reports the match
\* in file coordinates).
C5_SearchDownOnMatchLine ==
    (last.cmd.op = "SearchDown" /\ last.res = "Ok" /\ last.at >= 0)
        => last.postpos = LineStart(file, last.at)

\* start of the last match of pat before byte p of the file
LastMatchBefore(bytes, pat, p) == RegexFindLast(Slice(bytes, 0, Min(p, Len(bytes))), pat)

\* C6: searches are relative to the view, not to the start of the buffer's
\* window: the match a successful SearchDown jumps to is not above the line
\* the view was on, the match of a successful SearchDownNext is in a line
\* strictly below it, and the match of a successful SearchUp is the last
\* match above it.
C6_SearchRelativeToView ==
    (IsRaw /\ IsSearch(last.cmd) /\ last.res = "Ok" /\ last.at >= 0)
        => /\ last.cmd.op = "SearchDown" => last.at >= last.prepos
           /\ last.cmd.op = "SearchDownNext" => LineStart(file, last.at) > last.prepos
           /\ last.cmd.op = "SearchUp" =>
                last.at = LastMatchBefore(file, last.cmd.arg, last.prepos).val

\* C7: LoadMark after SaveMark and any motions restores the saved triple,
\* for the raw and for the bzip2 buffer.
C7_LoadMarkRestores ==
    (last.cmd.op = "load_state" /\ last.res = "Ok")
        => last.post = marks[last.cmd.arg].state

\* C8: view_offset never exceeds the length of the buffer's data.
C8_ViewOffsetInData == fview.vo <= Len(fview.buf.data)

\* C9: the data of the raw buffer is the content of the file in range(),
\* also when reads are short.
C9_RawDataIsFileContent ==
    IsRaw => LET r == BufRange(fview.buf)
             IN  /\ r.end <= Len(file)
                 /\ fview.buf.data = Slice(file, r.start, r.end)

C11_ShrinkKeepsRange ==
    [][(IsRaw /\ last'.cmd.op = "shrink_to" /\ last'.res = "Ok")
          => LET r == last'.cmd.arg
                 kept == last'.ret
             IN  /\ kept.start <= r.start /\ r.end <= kept.end
                 /\ Len(fview'.buf.data) = kept.end - kept.start
                 /\ fview'.buf.data = Slice(fview.buf.data, kept.start, kept.end)
                 /\ BufRange(fview'.buf).start = BufRange(fview.buf).start + kept.start]_vars

\* a window loaded past the start of the file was cut at its front, and the
\* DeVec gave back the room in front of what is left
C11_Witness ==
    /\ IsRaw /\ last.cmd.op = "shrink_to" /\ last.res = "Ok"
    /\ last.cmd.arg.start >= 1
    /\ Len(fview.buf.data) >= 2
    /\ fview.buf.front < last.cmd.arg.start

\* C12: a line motion that returns Ok moves current_line by the number of
\* lines asked for: down(n) from Some(x) leaves Some(x + n), up(n) leaves
\* Some(x - n).
C12_LineArithmetic ==
    (last.cmd.op \in {"up", "down"} /\ last.res = "Ok" /\ last.pre.current_line.some)
        => last.post.current_line =
             Some(IF last.cmd.op = "down"
                  THEN last.pre.current_line.val + last.cmd.arg
                  ELSE last.pre.current_line.val - last.cmd.arg)

\* the text of the file: the bytes of a raw file, the decoded blocks of a
\* compressed one
Text == IF IsBz2(file) THEN Decompress(Slice(file, HEADER_LEN, Len(file))).data ELSE file

\* the place in the text a saved view state points at
TextPos(state) ==
    IF IsBz2(file)
    THEN Len(Decompress(Slice(file, HEADER_LEN, state.buffer_pos)).data) + state.view_offset
    ELSE state.buffer_pos + state.view_offset

AtLineStart(p) == p = 0 \/ (p <= Len(Text) /\ Text[p] = NL)

\* number of lines of the text that end before place p
LinesAbove(p) == Cardinality({i \in 1..Min(p, Len(Text)) : Text[i] = NL})

\* C13: up(n) from a line start with fewer than n lines above returns BOF
\* and leaves view_offset 0 and current_line Some(1); with at least n lines
\* above it returns Ok; down(1) on a last line that has no newline returns
\* EOF.
C13_BofAndEof ==
    LET p == TextPos(last.pre)
    IN  /\ (last.cmd.op = "up" /\ AtLineStart(p) /\ LinesAbove(p) < last.cmd.arg)
              => /\ last.res = "BOF"
                 /\ last.post.view_offset = 0
                 /\ last.post.current_line = Some(1)
        /\ (last.cmd.op = "up" /\ AtLineStart(p) /\ LinesAbove(p) >= last.cmd.arg)
              => last.res = "Ok"
        /\ (last.cmd.op = "down" /\ last.cmd.arg = 1 /\ AtLineStart(p) /\ p < Len(Text)
              /\ \A i \in (p + 1)..Len(Text) : Text[i] # NL)
              => last.res = "EOF"

\* number of lines of the text that end at or after place p
LinesBelow(p) == Cardinality({i \in (p + 1)..Len(Text) : Text[i] = NL})

\* C14: up(n) followed by down(n), from a line start with at least n lines
\* above and n lines below, leaves view_offset and current_line as they
\* were.
C14_UpDownRoundTrip ==
    LET p == TextPos(last.pre)
    IN  (/\ last.cmd.op = "up_down"
         /\ AtLineStart(p)
         /\ LinesAbove(p) >= last.cmd.arg
         /\ LinesBelow(p) >= last.cmd.arg)
            => /\ last.res = "Ok"
               /\ last.post.view_offset = last.pre.view_offset
               /\ last.post.current_line = last.pre.current_line

\* C15: on an empty file the view opens (reading the 4-byte header does not
\* fail), and on the view opened top() and bottom() return Ok and down(1)
\* returns EOF.
C15_EmptyFile ==
    (file = EmptyFile)
        => /\ pc # "panicked"
           /\ last.cmd.op \in {"top", "bottom"} => last.res = "Ok"
           /\ last.cmd = Cmd("down", 1) => last.res = "EOF"

\* the last line of the file is the last line of the published text
LastLineShown ==
    /\ published.text # <<>>
    /\ Lines(file) # <<>>
    /\ published.text[Len(published.text)] = Lines(file)[Len(Lines(file))]

\* C16: while follow is on (and the view has rows), whenever the file has
\* grown a state whose text ends with the file's last line is eventually
\* published, with no command needed.
C16_FollowShowsGrowth ==
    (follow /\ view_height > 0 /\ appends > 0) ~> (LastLineShown \/ ~follow)

\* C17: every state published with follow on, after the follow scroll has
\* brought the view to the end of the file, has current_line Some(0), also
\* after the file has grown.
C17_FollowLineZero ==
    (published.follow /\ view_height > 0) => published.current_line = Some(0)


\* C18: handling Follow(false) clears the follow flag and leaves the view
\* where it was: view_offset, current_line and the buffer window are those
\* the view had when the command was received.
C18_UnfollowKeepsView ==
    last.cmd = Cmd("Follow", FALSE) => (last.post = last.pre /\ last.postpos = last.prepos)


\* C19: a state published for a timer tick carries only the errors of that
\* tick. A tick handles no command, so the only error it can produce is the
\* EOF that generate_state adds when building the view moved it upwards: no
\* error of an earlier command is published again.
C19_ErrorsOfThisCycle ==
    [][(pc = "select" /\ command_channel = <<>> /\ prev_file_size' # prev_file_size)
         => published'.errors \in {<<>>, <<"EOF">>}]_vars


\* C20: when view() fails with an I/O error while a state is generated, the
\* state that is published carries that error.  The steps considered are
\* those where generate_state runs on the view as it stands: the first
\* send_state of run() and a timer tick with follow off.
C20_ViewErrorSurfaced ==
    [][(/\ \/ pc = "start"
           \/ (pc = "select" /\ command_channel = <<>> /\ ~follow
                 /\ total_size(file) # prev_file_size)
        /\ pc' = "loop"
        /\ \A cap \in ReadCaps :
             view(fview, file, cap, view_height, view_width).res = "Other")
         => \E i \in DOMAIN published'.errors : published'.errors[i] = "Other"]_vars


\* C21: a cancel signal is observed by a paging load as it is by a search.
\* On a raw file, the cancel flag is set when MoveLine(n), n > 0, is received
\* and stays set while it runs, and the line sought is not in the buffered
\* data, so that down(n) has to load: the command ends with Cancelled.
C21_PagingObservesCancel ==
    [][(/\ pc = "select" /\ pc' = "loop"
        /\ cancelled
        /\ ~IsBz2(file)
        /\ command_channel # <<>>
        /\ Head(command_channel).cmd.op = "MoveLine"
        /\ Head(command_channel).cmd.arg > 0
        /\ ~find_nth_or_last(current_view(fview), NL,
                             SatSub(Head(command_channel).cmd.arg, 1)).some)
         => last'.res = "Cancelled"]_vars


C23_BlocksOrdered ==
    fview.buf.kind = "bz2" =>
        /\ \A i \in 1..(Len(fview.buf.blocks) - 1) :
             /\ fview.buf.blocks[i].start < fview.buf.blocks[i + 1].start
             /\ fview.buf.blocks[i].end = fview.buf.blocks[i + 1].start
        /\ \A i \in 1..Len(fview.buf.blocks) :
             fview.buf.blocks[i].start <= fview.buf.blocks[i].end
        /\ fview.buf.data = ConcatBlocks(fview.buf.blocks)


\* the starts of the compressed blocks of the file
BlockStarts == {i \in 0..Len(file) : HasAt(file, MAGIC, i)}

\* C24: jump(b) on a bzip2 file returns the nearest block start at or before
\* b (b itself when b is a block start); the window then begins there and
\* holds exactly the block that begins there.
C24_JumpToBlockStart ==
    (/\ fview.buf.kind = "bz2"
     /\ last.cmd.op = "jump"
     /\ last.res = "Ok"
     /\ \E s \in BlockStarts : s <= last.cmd.arg)
    => /\ last.ret \in BlockStarts
       /\ last.ret <= last.cmd.arg
       /\ \A s \in BlockStarts : s <= last.cmd.arg => s <= last.ret
       /\ Bz2Range(fview.buf).start = last.ret
       /\ Len(fview.buf.blocks) = 1


\* C25: a cancel signal that arrived while the command handler was waiting
\* with an empty queue does not touch the commands sent afterwards: no
\* search sent later ends with Cancelled on account of that flag, and no
\* command sent later is discarded at the top of the loop on account of it.
C25_IdleCancelHarmless ==
    /\ [][(pc = "loop" /\ cancelled /\ flagged.idle /\ pc' = "select")
            => drained' = drained]_vars
    /\ [](~(/\ pc = "loop" /\ cancelled /\ flagged.idle
            /\ IsSearch(last.cmd) /\ last.res = "Cancelled"
            /\ last.id > flagged.issued))


\* C26: FileView.load_prev and FileView.load_next do not move the view: on a
\* raw file the position range().start + view_offset is the same after the
\* call as before, also when the call shrinks the buffer.
C26_LoadKeepsPosition ==
    (/\ last.cmd.op \in {"FileView::load_prev", "FileView::load_next"}
     /\ last.res = "Ok"
     /\ fview.buf.kind = "raw")
    => last.postpos = last.prepos


\* C27: jump_to_line(L) that returns Ok leaves current_line Some(L).  For
\* L > 0 the view is at the start of the L-th line of the text; for L < 0
\* it is at a line start above the bottom position.
C27_JumpToLine ==
    LET p == TextPos(last.post)
    IN  (last.cmd.op = "jump_to_line" /\ last.res = "Ok")
        => /\ last.post.current_line = Some(last.cmd.arg)
           /\ last.cmd.arg > 0 => (AtLineStart(p) /\ LinesAbove(p) = last.cmd.arg - 1)
           /\ last.cmd.arg < 0 => (AtLineStart(p) /\ p < Len(Text))


RowsFrom(q, a) == SumVisual(Lines(Slice(file, q, a.size)), a.w)

\* C29: view(nlines, ncols) on a raw file, called at a line start. With at
\* least nlines visual lines between the view and the end of the file the
\* view stays where it is, current_line is unchanged and the lines returned
\* start at the view. With fewer, the view moves up line by line until the
\* lines from the view to the end of the file fill nlines visual lines or
\* the start of the file is reached, and all lines from the new view to the
\* end of the file are returned.
C29_ViewAnchorsAtEof ==
    LET K(a, p, q, below) ==
            IF RowsFrom(p, a) >= a.h
            THEN /\ q = p
                 /\ last.post.current_line = last.pre.current_line
                 /\ Len(a.text) <= Len(below)
                 /\ a.text = SubSeq(below, 1, Len(a.text))
            ELSE /\ q <= p
                 /\ AtLineStart(q)
                 /\ RowsFrom(q, a) >= a.h \/ q = 0
                 /\ \A r \in (q + 1)..p : AtLineStart(r) => RowsFrom(r, a) < a.h
                 /\ a.text = Lines(Slice(file, q, a.size))
    IN  (/\ last.cmd.op = "view"
         /\ last.res = "Ok"
         /\ ~IsBz2(file)
         /\ last.cmd.arg.h > 0
         /\ last.prepos <= last.cmd.arg.size
         /\ AtLineStart(last.prepos))
        => K(last.cmd.arg, last.prepos, last.postpos,
             Lines(Slice(file, last.prepos, last.cmd.arg.size)))


\* ---- view() and the line motions on files that hold empty lines or a
\* line of LongLineLen bytes (more than LOOP_BREAKER_COUNT loads) ----
LongLineLen == 2 * LOOP_BREAKER_COUNT
LineFiles == {<<CharA, NL, NL, CharM, NL>>, <<NL, CharA, NL, CharM, NL>>, RawFile1,
              [i \in 1..LongLineLen |-> CharA] \o <<NL, CharM, NL>>}

InitRows == Started(LineFiles)

NextRows == CallDown \/ CallUp \/ CallBottom \/ CallView

SpecRows == InitRows /\ [][NextRows]_vars

\* rows a line takes on a screen ncols wide: at least one, an empty line too
RECURSIVE ScreenRows(_, _)
ScreenRows(lines, ncols) ==
    IF lines = <<>> THEN 0
    ELSE Max(1, div_ceil(Len(Head(lines)), ncols)) + ScreenRows(Tail(lines), ncols)

\* C30: the lines returned by view(nlines, Some(ncols)) fit the screen: the
\* rows they need, every line taking at least one row, never exceed nlines.
C30_ViewFitsScreen ==
    (last.cmd.op = "view" /\ last.res = "Ok" /\ last.cmd.arg.w.some)
        => ScreenRows(last.cmd.arg.text, last.cmd.arg.w.val) <= last.cmd.arg.h


\* C31: a state published after a command (follow off) carries the EOF
\* error of state generation exactly when the view() made for it moved the
\* view toward the start of the file: its errors are the command's errors
\* followed by EOF when the view moved up, and the command's errors alone
\* when it did not.
C31_EofIffViewMovedUp ==
    [][(last' # last /\ pc' = "loop" /\ ~follow')
        => published'.errors =
              IF TextPos(save_state(fview')) < TextPos(last'.post)
              THEN Append(command_errors', "EOF")
              ELSE command_errors']_vars


\* places of the file where pat matches
Matches(pat) == {i \in 0..Len(file) : HasAt(file, pat, i)}

C35_SeekWindowInBounds ==
    /\ search.kind \in {"seek_from", "rseek_from"}
         => (0 <= search.begin /\ search.begin <= search.end
             /\ search.end <= Len(fview.buf.data))
    /\ ~(last.cmd.op \in {"seek_from", "rseek_from"} /\ last.res = "Panic")


NoRepeat(t) == \A i, j \in 1..Len(t) : i # j => t[i] # t[j]

\* what C34 asks of one call: the ranges handed to the decoder are pairwise
\* different, there are at most MAX_INVALID_BLOCKS of them, and a call that
\* gives up has made MAX_INVALID_BLOCKS attempts
RetriesDiffer(r) ==
    /\ NoRepeat(r.tried)
    /\ Len(r.tried) <= MAX_INVALID_BLOCKS
    /\ r.res = "Other" => Len(r.tried) = MAX_INVALID_BLOCKS

\* C34: whatever blocks the compressed buffer holds, a jump, load_next or
\* load_prev called on it retries after a decoder error with a file range
\* it has not tried before in that call, and gives up with the decoder's
\* error after MAX_INVALID_BLOCKS failed attempts.
C34_RetriesUseNewRange ==
    (fview.buf.kind = "bz2" /\ pc # "panicked")
        => /\ RetriesDiffer(Bz2LoadNext(fview.buf, file))
           /\ RetriesDiffer(Bz2LoadPrev(fview.buf, file))
           /\ \A b \in 0..total_size(file) : RetriesDiffer(Bz2Jump(fview.buf, file, b))


\* C36: down(n) on a raw file returns Ok when the file holds at least n
\* newlines at or after the view position, whatever the length of the
\* lines, and EOF when it holds fewer.
C36_DownReachesNewline ==
    (last.cmd.op = "down" /\ ~IsBz2(file))
        => last.res = IF LinesBelow(last.prepos) >= last.cmd.arg THEN "Ok" ELSE "EOF"


\* C37: the broker terminates only on a channel error: whenever run()
\* returns, one of the command, cancel and state channels has been closed.
C37_TerminatesOnChannelErrorOnly ==
    [][(pc # "terminated" /\ pc' = "terminated") => closed # {}]_vars


InExecuted(i) == \E k \in 1..Len(executed) : executed[k] = i

C39_FailedLoadKeepsBuffer ==
    [][(last'.cmd.op \in {"load_prev", "load_next"} /\ last'.cmd.arg = -1)
        => /\ last'.res = "Other"
           /\ fview'.buf.data = fview.buf.data
           /\ RawRange(fview'.buf) = RawRange(fview.buf)]_vars

C39_Witness ==
    /\ last.cmd.op = "load_prev"
    /\ last.cmd.arg = -1
    /\ last.res = "Other"
    /\ fview.buf.data # <<>>
    /\ fview.buf.offset > 0


\* C40: a DeVec behaves like a sequence under its methods: after
\* resize_front(n) or resize_back(n) the length is n, the elements kept are
\* the old ones in order (resize_back keeps the front of the slice,
\* resize_front its back) and every element newly exposed is
\* T::default(); clear leaves length 0; shrink_to(n) leaves as_slice()
\* unchanged and the head offset at most max(n, len) / 2.
C40_DeVecIsSequence ==
    [][LET old == as_slice(devec)
           new == as_slice(devec')
           len == Len(as_slice(devec))
           n == last'.cmd.arg
       IN  /\ last'.cmd.op = "resize_back"
                => /\ Len(new) = n
                   /\ \A i \in 1..n : new[i] = IF i <= len THEN old[i] ELSE 0
           /\ last'.cmd.op = "resize_front"
                => /\ Len(new) = n
                   /\ \A i \in 1..n :
                        new[i] = IF i > n - len THEN old[len - (n - i)] ELSE 0
           /\ last'.cmd.op = "clear" => Len(new) = 0
           /\ last'.cmd.op = "shrink_to"
                => /\ new = old
                   /\ devec'.offset <= Max(n, len) \div 2]_vars

====
